---- MODULE Spec2Model ----
(***************************************************************************)
(* Numerical core of the market-trend analysis application:                *)
(*   - TechnicalIndicators (src/unnamed/part_009, the class imported as    *)
(*     ../utils/technicalIndicators),                                      *)
(*   - PredictionService   (src/src/services/predictionService.ts).        *)
(*                                                                         *)
(* JavaScript numbers are modelled as exact rationals <<n, d>> in lowest   *)
(* terms with d > 0, extended with the IEEE-754 special values the code    *)
(* can produce by dividing by zero: NaN = <<0,0>>, +Infinity = <<1,0>>,    *)
(* -Infinity = <<-1,0>>.  Rounding of binary floating point is not         *)
(* modelled; Math.sqrt is rounded down to a multiple of 1/SqrtScale.       *)
(***************************************************************************)
EXTENDS Integers, Sequences, FiniteSets, TLC

(* call: the call made, with its arguments (and, for a database-backed     *)
(* handler, the rows it reads); ret: <<operation, value returned>>;        *)
(* validationCache: the service's validation results by symbol;            *)
(* inFlight: the validatePredictions calls that have been made and not     *)
(* yet resolved, each with the await it is suspended at.                   *)
VARIABLES call, ret, validationCache, inFlight

(* APIClient.  now: Date.now(), in milliseconds; rateLimiters: the map of  *)
(* limiters by API name; rateChecks: the checkRateLimit calls in progress, *)
(* each idle or suspended at the setTimeout promise; admitted: for each    *)
(* API name, the times at which checkRateLimit calls have resolved.        *)
VARIABLES now, rateLimiters, rateChecks, admitted

apiClientVars == <<now, rateLimiters, rateChecks, admitted>>

(* DataService and MarketDataService.  marketSource: whether the           *)
(* market_data query of MarketDataService.getLatestMarketData succeeds;    *)
(* latestFetch: the DataService.getLatestMarketData call in progress, with *)
(* the await it is at and the queries of the source it has made;           *)
(* realtimeSubscription: MarketDataService.realtimeSubscription is set;    *)
(* periodicTimers: the setInterval timers of startPeriodicUpdates that are *)
(* active; pendingInserts: INSERT handlers suspended in                    *)
(* getLatestMarketData; updatesStarted: the last of startRealTimeUpdates   *)
(* and stopRealTimeUpdates to return was start; lastCallback: when the     *)
(* registered callback was last invoked since the last start or stop.      *)
VARIABLES marketSource, latestFetch, realtimeSubscription, periodicTimers,
          pendingInserts, updatesStarted, lastCallback

dataServiceVars == <<marketSource, latestFetch, realtimeSubscription, periodicTimers,
                     pendingInserts, updatesStarted, lastCallback>>

vars == <<call, ret, validationCache, inFlight, apiClientVars, dataServiceVars>>

-----------------------------------------------------------------------------
(* Bounds of the model.                                                    *)

MaxPrice == 3
MaxLen == 4
MaxPeriod == 3
MaxBarPrice == 2
MaxBars == 2
MaxDPeriod == 2
SqrtScale == 10
MaxDays == 2
MaxModels == 2
MaxStored == 2
MaxMarketRows == 2
MaxHistory == 30
MaxRequests == 2
LongDays == 8
MaxFetches == 2
MaxCalls == 11
MaxTicks == 3
TicksPerMinute == 2
MaxSourceCalls == 3
MaxTimers == 2
MaxPending == 1

-----------------------------------------------------------------------------
(* JavaScript number arithmetic.                                           *)

RECURSIVE GCD(_, _)
GCD(a, b) == IF b = 0 THEN a ELSE GCD(b, a % b)

IAbs(n) == IF n < 0 THEN -n ELSE n

ISign(n) == IF n < 0 THEN -1 ELSE IF n > 0 THEN 1 ELSE 0

Norm(n, d) ==
  LET g == GCD(IAbs(n), IAbs(d))
      s == IF d < 0 THEN -1 ELSE 1
  IN  <<(s * n) \div g, (s * d) \div g>>

Num(n) == <<n, 1>>

Frac(n, d) == Norm(n, d)

Zero == <<0, 1>>

One == <<1, 1>>

Hundred == <<100, 1>>

NaN == <<0, 0>>

PosInf == <<1, 0>>

NegInf == <<-1, 0>>

IsNaN(a) == a = NaN

IsInf(a) == a[2] = 0 /\ a[1] # 0

IsFinite(a) == a[2] # 0

IsZero(a) == a[2] # 0 /\ a[1] = 0

RSign(a) == ISign(a[1])

RNeg(a) == <<-a[1], a[2]>>

RAdd(a, b) ==
  IF IsNaN(a) \/ IsNaN(b) THEN NaN
  ELSE IF IsInf(a) THEN (IF IsInf(b) /\ b # a THEN NaN ELSE a)
  ELSE IF IsInf(b) THEN b
  ELSE LET g == GCD(a[2], b[2])
       IN  Norm(a[1] * (b[2] \div g) + b[1] * (a[2] \div g), (a[2] \div g) * b[2])

RSub(a, b) == RAdd(a, RNeg(b))

RMul(a, b) ==
  IF IsNaN(a) \/ IsNaN(b) THEN NaN
  ELSE IF IsInf(a) \/ IsInf(b)
       THEN (IF IsZero(a) \/ IsZero(b) THEN NaN ELSE <<RSign(a) * RSign(b), 0>>)
  ELSE LET g == GCD(IAbs(a[1]), b[2])
           h == GCD(IAbs(b[1]), a[2])
       IN  Norm((a[1] \div g) * (b[1] \div h), (a[2] \div h) * (b[2] \div g))

RDiv(a, b) ==
  IF IsNaN(a) \/ IsNaN(b) THEN NaN
  ELSE IF IsInf(a)
       THEN (IF IsInf(b) THEN NaN
             ELSE <<RSign(a) * (IF RSign(b) < 0 THEN -1 ELSE 1), 0>>)
  ELSE IF IsInf(b) THEN Zero
  ELSE IF IsZero(b) THEN (IF IsZero(a) THEN NaN ELSE <<RSign(a), 0>>)
  ELSE Norm(a[1] * b[2], a[2] * b[1])

RLt(a, b) ==
  IF IsNaN(a) \/ IsNaN(b) THEN FALSE
  ELSE IF IsInf(a) \/ IsInf(b)
       THEN a # b /\ (a = NegInf \/ b = PosInf)
  ELSE a[1] * b[2] < b[1] * a[2]

RGt(a, b) == RLt(b, a)

REq(a, b) == ~IsNaN(a) /\ ~IsNaN(b) /\ a = b

RLe(a, b) == RLt(a, b) \/ REq(a, b)

RGe(a, b) == RLe(b, a)

RAbs(a) == IF a[1] < 0 THEN RNeg(a) ELSE a

RMax2(a, b) == IF IsNaN(a) \/ IsNaN(b) THEN NaN ELSE IF RLt(a, b) THEN b ELSE a

RMin2(a, b) == IF IsNaN(a) \/ IsNaN(b) THEN NaN ELSE IF RLt(b, a) THEN b ELSE a

RECURSIVE ISqrt(_)
ISqrt(x) ==
  IF x < 2 THEN x
  ELSE LET s == 2 * ISqrt(x \div 4)
       IN  IF (s + 1) * (s + 1) <= x THEN s + 1 ELSE s

RSqrt(a) ==
  IF IsNaN(a) \/ a[1] < 0 THEN NaN
  ELSE IF IsInf(a) THEN PosInf
  ELSE LET scaled == (a[1] \div a[2]) * SqrtScale * SqrtScale
                     + ((a[1] % a[2]) * SqrtScale * SqrtScale) \div a[2]
       IN  Norm(ISqrt(scaled), SqrtScale)

RSquare(a) == RMul(a, a)

(* Array.prototype.slice(start, end) on a 0-based array held as a 1-based   *)
(* sequence: negative indices count from the end, both are clamped.        *)
JsSlice(s, start, end) ==
  LET n  == Len(s)
      lo == IF start < 0 THEN (IF n + start < 0 THEN 0 ELSE n + start)
            ELSE (IF start > n THEN n ELSE start)
      hi == IF end < 0 THEN (IF n + end < 0 THEN 0 ELSE n + end)
            ELSE (IF end > n THEN n ELSE end)
  IN  IF hi <= lo THEN <<>> ELSE [k \in 1..(hi - lo) |-> s[lo + k]]

(* reduce((a, b) => a + b, 0). The additions are exact, so their grouping  *)
(* does not change the sum: the two halves are summed and added, which     *)
(* keeps the evaluation of a long window shallow.                          *)
RECURSIVE RSum(_)
RSum(s) ==
  IF Len(s) = 0 THEN Zero
  ELSE IF Len(s) = 1 THEN RAdd(Zero, s[1])
  ELSE LET half == Len(s) \div 2
       IN  RAdd(RSum(SubSeq(s, 1, half)), RSum(SubSeq(s, half + 1, Len(s))))

(* Math.max(...xs): -Infinity for no arguments. *)
RECURSIVE MathMax(_)
MathMax(s) == IF Len(s) = 0 THEN NegInf ELSE RMax2(MathMax(SubSeq(s, 1, Len(s) - 1)), s[Len(s)])

(* Math.min(...xs): +Infinity for no arguments. *)
RECURSIVE MathMin(_)
MathMin(s) == IF Len(s) = 0 THEN PosInf ELSE RMin2(MathMin(SubSeq(s, 1, Len(s) - 1)), s[Len(s)])

-----------------------------------------------------------------------------
(* TechnicalIndicators.                                                    *)

Gains(prices) ==
  [j \in 1..(Len(prices) - 1) |->
     LET change == RSub(prices[j + 1], prices[j])
     IN  IF RGt(change, Zero) THEN change ELSE Zero]

(* Faulty: the loss is pushed with its sign (Math.abs forgotten). *)
LossesSigned(prices) ==
  [j \in 1..(Len(prices) - 1) |->
     LET change == RSub(prices[j + 1], prices[j])
     IN  IF RLt(change, Zero) THEN change ELSE Zero]

Losses(prices) ==
  [j \in 1..(Len(prices) - 1) |->
     LET change == RSub(prices[j + 1], prices[j])
     IN  IF RLt(change, Zero) THEN RAbs(change) ELSE Zero]

(* Faulty: no test for a zero average loss. *)
RSIPointUnguarded(gains, losses, period, i) ==
  LET avgGain == RDiv(RSum(JsSlice(gains, i - period + 1, i + 1)), Num(period))
      avgLoss == RDiv(RSum(JsSlice(losses, i - period + 1, i + 1)), Num(period))
      rs == RDiv(avgGain, avgLoss)
  IN  RSub(Hundred, RDiv(Hundred, RAdd(One, rs)))

(* One pass of the RSI loop, i being the 0-based loop index. *)
RSIPoint(gains, losses, period, i) ==
  LET avgGain == RDiv(RSum(JsSlice(gains, i - period + 1, i + 1)), Num(period))
      avgLoss == RDiv(RSum(JsSlice(losses, i - period + 1, i + 1)), Num(period))
  IN  IF REq(avgLoss, Zero) THEN Hundred
      ELSE LET rs == RDiv(avgGain, avgLoss)
           IN  RSub(Hundred, RDiv(Hundred, RAdd(One, rs)))

(* Faulty: the RSI loop starts at i = period instead of period - 1. *)
calculateRSILateStart(prices, period) ==
  IF Len(prices) < period + 1 THEN <<>>
  ELSE LET gains  == Gains(prices)
           losses == Losses(prices)
       IN  [k \in 1..(Len(gains) - period) |->
              RSIPoint(gains, losses, period, period + (k - 1))]

calculateRSI(prices, period) ==
  IF Len(prices) < period + 1 THEN <<>>
  ELSE LET gains  == Gains(prices)
           losses == Losses(prices)
       IN  [k \in 1..(Len(gains) - (period - 1)) |->
              RSIPoint(gains, losses, period, period - 1 + (k - 1))]

calculateSMA(prices, period) ==
  IF Len(prices) < period THEN <<>>
  ELSE [k \in 1..(Len(prices) - (period - 1)) |->
          LET i == period - 1 + (k - 1)
          IN  RDiv(RSum(JsSlice(prices, i - period + 1, i + 1)), Num(period))]

(* Faulty: the EMA is seeded with the last price of the first window       *)
(* instead of the SMA of the first `period` prices.                        *)
RECURSIVE EMAValuesSeedPrice(_, _, _)
EMAValuesSeedPrice(prices, period, k) ==
  IF k = 1 THEN <<prices[period]>>
  ELSE LET ema == EMAValuesSeedPrice(prices, period, k - 1)
           multiplier == RDiv(Num(2), Num(period + 1))
           i == period + (k - 2)
       IN  Append(ema, RAdd(RMul(prices[i + 1], multiplier),
                            RMul(ema[Len(ema)], RSub(One, multiplier))))

(* ema after k pushes, k >= 1: the seed, then one value per pass of the    *)
(* loop, each built from ema[ema.length - 1].                              *)
RECURSIVE EMAValues(_, _, _)
EMAValues(prices, period, k) ==
  IF k = 1 THEN <<RDiv(RSum(JsSlice(prices, 0, period)), Num(period))>>
  ELSE LET ema == EMAValues(prices, period, k - 1)
           multiplier == RDiv(Num(2), Num(period + 1))
           i == period + (k - 2)
       IN  Append(ema, RAdd(RMul(prices[i + 1], multiplier),
                            RMul(ema[Len(ema)], RSub(One, multiplier))))

calculateEMA(prices, period) ==
  IF Len(prices) < period THEN <<>>
  ELSE EMAValues(prices, period, 1 + Len(prices) - period)

(* Faulty: the deviation is taken from the signed mean deviation of the    *)
(* newest price instead of the standard deviation of the window.           *)
BollingerDeviationSigned(prices, period, stdDev, i) ==
  LET slice == JsSlice(prices, i - period + 1, i + 1)
      mean == RDiv(RSum(slice), Num(period))
  IN  RMul(RSub(slice[Len(slice)], mean), stdDev)

BollingerDeviation(prices, period, stdDev, i) ==
  LET slice == JsSlice(prices, i - period + 1, i + 1)
      mean == RDiv(RSum(slice), Num(period))
      variance == RDiv(RSum([j \in 1..Len(slice) |-> RSquare(RSub(slice[j], mean))]),
                       Num(period))
      standardDeviation == RSqrt(variance)
  IN  RMul(standardDeviation, stdDev)

calculateBollingerBands(prices, period, stdDev) ==
  LET sma == calculateSMA(prices, period)
      n   == IF Len(prices) - (period - 1) < 0 THEN 0 ELSE Len(prices) - (period - 1)
  IN  [upper  |-> [k \in 1..n |->
                     RAdd(sma[k], BollingerDeviation(prices, period, stdDev, period - 1 + (k - 1)))],
       middle |-> sma,
       lower  |-> [k \in 1..n |->
                     RSub(sma[k], BollingerDeviation(prices, period, stdDev, period - 1 + (k - 1)))]]

StochasticK(highs, lows, closes, kPeriod, i) ==
  LET highestHigh == MathMax(JsSlice(highs, i - kPeriod + 1, i + 1))
      lowestLow   == MathMin(JsSlice(lows, i - kPeriod + 1, i + 1))
  IN  IF REq(highestHigh, lowestLow) THEN Num(50)
      ELSE RMul(RDiv(RSub(closes[i + 1], lowestLow), RSub(highestHigh, lowestLow)), Hundred)

calculateStochastic(highs, lows, closes, kPeriod, dPeriod) ==
  LET n == IF Len(closes) - (kPeriod - 1) < 0 THEN 0 ELSE Len(closes) - (kPeriod - 1)
      k == [j \in 1..n |-> StochasticK(highs, lows, closes, kPeriod, kPeriod - 1 + (j - 1))]
  IN  [k |-> k, d |-> calculateSMA(k, dPeriod)]

(* Default periods of the indicator functions. *)
DefaultRSIPeriod == 14

DefaultFastPeriod == 12

DefaultSlowPeriod == 26

DefaultSignalPeriod == 9

DefaultBollingerPeriod == 20

DefaultStdDev == 2

DefaultKPeriod == 14

DefaultDPeriod == 3

DefaultATRPeriod == 14

DefaultADXPeriod == 14

PatternWindow == 20

(* xs[i] of a 0-based array read in an arithmetic expression: an index     *)
(* outside the array reads undefined, which a subtraction turns into NaN.  *)
ArrayGet(xs, i) == IF i + 1 \in DOMAIN xs THEN xs[i + 1] ELSE NaN

IMax2(a, b) == IF a < b THEN b ELSE a

IMin2(a, b) == IF b < a THEN b ELSE a

(* The edge function's calculateRSI: one value for each i from period to  *)
(* prices.length - 1, from the changes prices[j] - prices[j - 1] of the    *)
(* window j = i - period + 1 .. i; no guard on a zero average loss.        *)
EdgeWindowChanges(prices, period, i) ==
  [m \in 1..IMax2(0, period) |->
     LET j == i - period + 1 + (m - 1)
     IN  RSub(prices[j + 1], prices[j])]

EdgeRSIPoint(prices, period, i) ==
  LET changes == EdgeWindowChanges(prices, period, i)
      gains   == RSum([m \in 1..Len(changes) |->
                        IF RGt(changes[m], Zero) THEN changes[m] ELSE Zero])
      losses  == RSum([m \in 1..Len(changes) |->
                        IF RGt(changes[m], Zero) THEN Zero
                        ELSE RSub(Zero, changes[m])])
      avgGain == RDiv(gains, Num(period))
      avgLoss == RDiv(losses, Num(period))
      rs      == RDiv(avgGain, avgLoss)
  IN  RSub(Hundred, RDiv(Hundred, RAdd(One, rs)))

edgeCalculateRSI(prices, period) ==
  [k \in 1..IMax2(0, Len(prices) - period) |->
     EdgeRSIPoint(prices, period, period + (k - 1))]

(* The loop of calculateMACD that fills macd. *)
MACDLine(emaFast, emaSlow, fastPeriod, slowPeriod) ==
  LET startIndex == IMax2(0, slowPeriod - fastPeriod)
      end == IMin2(Len(emaFast), Len(emaSlow))
  IN  [j \in 1..IMax2(0, end - startIndex) |->
         LET i == startIndex + (j - 1)
         IN  RSub(ArrayGet(emaFast, i + (fastPeriod - slowPeriod)), ArrayGet(emaSlow, i))]

(* An array once its loop has run: the same sequence, every element        *)
(* computed once and stored.                                               *)
Filled(xs) == SubSeq(xs, 1, Len(xs))

calculateMACD(prices, fastPeriod, slowPeriod, signalPeriod) ==
  LET emaFast == Filled(calculateEMA(prices, fastPeriod))
      emaSlow == Filled(calculateEMA(prices, slowPeriod))
      macd == Filled(MACDLine(emaFast, emaSlow, fastPeriod, slowPeriod))
      signal == Filled(calculateEMA(macd, signalPeriod))
      tail == JsSlice(macd, signalPeriod - 1, Len(macd))
      histogram == [index \in 1..Len(tail) |-> RSub(tail[index], ArrayGet(signal, index - 1))]
  IN  [macd |-> macd, signal |-> signal, histogram |-> Filled(histogram)]

TrueRange(highs, lows, closes, i) ==
  LET tr1 == RSub(highs[i + 1], lows[i + 1])
      tr2 == RAbs(RSub(highs[i + 1], closes[i]))
      tr3 == RAbs(RSub(lows[i + 1], closes[i]))
  IN  MathMax(<<tr1, tr2, tr3>>)

calculateATR(highs, lows, closes, period) ==
  IF Len(highs) < 2 \/ Len(highs) # Len(lows) \/ Len(highs) # Len(closes) THEN <<>>
  ELSE calculateSMA([i \in 1..(Len(highs) - 1) |-> TrueRange(highs, lows, closes, i)], period)

ADXValue(highs, period, i) ==
  LET slice == JsSlice(highs, i - period, i)
      trend == RSub(slice[Len(slice)], slice[1])
      volatility == RSub(MathMax(slice), MathMin(slice))
      adxValue == RMul(RDiv(RAbs(trend), volatility), Hundred)
  IN  RMin2(Hundred, RMax2(Zero, adxValue))

calculateADX(highs, lows, closes, period) ==
  IF Len(highs) < period + 1 THEN <<>>
  ELSE [k \in 1..(Len(highs) - period) |-> ADXValue(highs, period, period + (k - 1))]

(* An optional argument or result field: <<>> when it is undefined,        *)
(* <<v>> when it holds v.                                                  *)
Absent == <<>>

Present(v) == <<v>>

IsPresent(o) == Len(o) = 1

calculateAll(prices, highs, lows) ==
  [rsi |-> calculateRSI(prices, DefaultRSIPeriod),
   macd |-> calculateMACD(prices, DefaultFastPeriod, DefaultSlowPeriod, DefaultSignalPeriod),
   sma |-> [p \in {20, 50, 200} |-> calculateSMA(prices, p)],
   ema |-> [p \in {12, 26} |-> calculateEMA(prices, p)],
   bollingerBands |-> calculateBollingerBands(prices, DefaultBollingerPeriod, Num(DefaultStdDev)),
   stochastic |-> IF IsPresent(highs) /\ IsPresent(lows)
                  THEN Present(calculateStochastic(highs[1], lows[1], prices,
                                                   DefaultKPeriod, DefaultDPeriod))
                  ELSE Absent,
   atr |-> IF IsPresent(highs) /\ IsPresent(lows)
           THEN Present(calculateATR(highs[1], lows[1], prices, DefaultATRPeriod))
           ELSE Absent,
   adx |-> IF IsPresent(highs) /\ IsPresent(lows)
           THEN Present(calculateADX(highs[1], lows[1], prices, DefaultADXPeriod))
           ELSE Absent]

(* Faulty: the guard on the number of prices is missing. *)
detectPatternsUnguarded(prices) ==
  LET recent == JsSlice(prices, -PatternWindow, Len(prices))
      trend == RSub(ArrayGet(recent, Len(recent) - 1), ArrayGet(recent, 0))
      volatility == RSub(MathMax(recent), MathMin(recent))
  IN  IF RLt(RAbs(trend), RMul(volatility, Frac(1, 10)))
      THEN <<"Sideways consolidation">>
      ELSE IF RGt(trend, Zero) THEN <<"Uptrend">> ELSE <<"Downtrend">>

detectPatterns(prices) ==
  IF Len(prices) < PatternWindow THEN <<>>
  ELSE LET recent == JsSlice(prices, -PatternWindow, Len(prices))
           trend == RSub(recent[Len(recent)], recent[1])
           volatility == RSub(MathMax(recent), MathMin(recent))
           direction ==
             IF RLt(RAbs(trend), RMul(volatility, Frac(1, 10)))
             THEN <<"Sideways consolidation">>
             ELSE IF RGt(trend, Zero)
                  THEN <<"Uptrend">>
                       \o (IF RGt(trend, RMul(volatility, Frac(1, 2)))
                           THEN <<"Strong bullish momentum">> ELSE <<>>)
                  ELSE <<"Downtrend">>
                       \o (IF RGt(RAbs(trend), RMul(volatility, Frac(1, 2)))
                           THEN <<"Strong bearish momentum">> ELSE <<>>)
           last5 == JsSlice(recent, -5, Len(recent))
           first15 == JsSlice(recent, 0, 15)
           recentVolatility == RSub(MathMax(last5), MathMin(last5))
           historicalVolatility == RSub(MathMax(first15), MathMin(first15))
       IN  direction
           \o (IF RGt(recentVolatility, RMul(historicalVolatility, Frac(3, 2)))
               THEN <<"Volatility breakout">> ELSE <<>>)

-----------------------------------------------------------------------------
(* PredictionService.                                                      *)
(*                                                                         *)
(* A calendar date "YYYY-MM-DD" is <<day>>, an ISO timestamp               *)
(* "YYYY-MM-DDThh:mm:ss" is <<day, time>>, day being a day number.         *)

Today == 10

Undefined == <<>>

Half == <<1, 2>>

IsoString(day, time) == <<day, time>>

(* The timestamp left whole, its time of day kept. *)
SplitT0Forgotten(ts) == ts

(* ts.split('T')[0] *)
SplitT0(ts) == <<ts[1]>>

(* date.toISOString() of a Date on day `day`, read off the running clock. *)
ToISOString(day) == IsoString(day, 1)

(* A numeric column value arrives as decimal text: "100.5" is the digits    *)
(* <<1, 0, 0>> before the point and <<5>> after it.                        *)
DecimalText(int, frac) == [int |-> int, frac |-> frac]

RECURSIVE DigitsValue(_)
DigitsValue(digits) ==
  IF Len(digits) = 0 THEN 0
  ELSE 10 * DigitsValue(SubSeq(digits, 1, Len(digits) - 1)) + digits[Len(digits)]

RECURSIVE Pow10(_)
Pow10(n) == IF n = 0 THEN 1 ELSE 10 * Pow10(n - 1)

(* parseFloat of decimal text. *)
ParseFloat(text) == Frac(DigitsValue(text.int \o text.frac), Pow10(Len(text.frac)))

(* The number decimal text is coerced to by an arithmetic operator. *)
ToNumber(text) == Frac(DigitsValue(text.int \o text.frac), Pow10(Len(text.frac)))

(* Object.keys of a JSON object, the object being its <<key, value>> pairs *)
(* in insertion order.                                                     *)
ObjectKeys(obj) == [j \in 1..Len(obj) |-> obj[j][1]]

(* JavaScript truthiness of a number or undefined. *)
Truthy(x) == x # Undefined /\ ~IsNaN(x) /\ ~IsZero(x)

(* The symbols that have a market_symbols row. *)
KnownSymbols == {"IBM"}

getBasePrice(symbol) ==
  CASE symbol = "AAPL"  -> Num(235)
    [] symbol = "GOOGL" -> Num(185)
    [] symbol = "MSFT"  -> Num(425)
    [] symbol = "TSLA"  -> Num(185)
    [] symbol = "AMZN"  -> Num(195)
    [] symbol = "NVDA"  -> Num(850)
    [] symbol = "META"  -> Num(580)
    [] symbol = "BTC"   -> Num(95000)
    [] symbol = "ETH"   -> Num(3800)
    [] symbol = "SPY"   -> Num(580)
    [] OTHER            -> Num(100)

(* Math.random(): a handler run is given one draw rnd.  A price walk uses  *)
(* it for its first step (k = 1) and draws 1/2 for the later steps, which  *)
(* keeps the products of the walk small.                                   *)
Random(rnd, k) == IF k = 1 THEN rnd ELSE Half

(* [...new Set(xs)]: the distinct elements in order of first occurrence. *)
RECURSIVE Distinct(_)
Distinct(xs) ==
  IF Len(xs) = 0 THEN <<>>
  ELSE LET init == Distinct(SubSeq(xs, 1, Len(xs) - 1))
       IN  IF \E j \in 1..Len(init) : init[j] = xs[Len(xs)] THEN init
           ELSE Append(init, xs[Len(xs)])

RECURSIVE FlatMap(_)
FlatMap(xss) ==
  IF Len(xss) = 0 THEN <<>> ELSE FlatMap(SubSeq(xss, 1, Len(xss) - 1)) \o xss[Len(xss)]

(* modelPredictions.map(model => model[day]).filter(Boolean), day 0-based. *)
DayPredictions(modelPredictions, day) ==
  LET present == SelectSeq([m \in 1..Len(modelPredictions) |-> m],
                           LAMBDA m : Len(modelPredictions[m]) > day)
  IN  [j \in 1..Len(present) |-> modelPredictions[present[j]][day + 1]]

(* Faulty: the weighted sum is divided by the number of models instead of *)
(* the total weight.                                                       *)
CombinedPredictionPlainDivisor(dayPredictions) ==
  LET n == Len(dayPredictions)
      weightedPrice ==
        RDiv(RSum([j \in 1..n |-> RMul(dayPredictions[j].predicted,
                                       dayPredictions[j].confidence)]),
             Num(n))
      avgConfidence == RDiv(RSum([j \in 1..n |-> dayPredictions[j].confidence]), Num(n))
  IN  [timestamp  |-> dayPredictions[1].timestamp,
       predicted  |-> weightedPrice,
       confidence |-> avgConfidence,
       upperBound |-> MathMax([j \in 1..n |-> dayPredictions[j].upperBound]),
       lowerBound |-> MathMin([j \in 1..n |-> dayPredictions[j].lowerBound]),
       modelUsed  |-> "Ensemble",
       features   |-> Distinct(FlatMap([j \in 1..n |-> dayPredictions[j].features]))]

(* Faulty: the bounds are those of the first model that has the day. *)
CombinedPredictionFirstBounds(dayPredictions) ==
  LET n == Len(dayPredictions)
      totalWeight == RSum([j \in 1..n |-> dayPredictions[j].confidence])
      weightedPrice ==
        RDiv(RSum([j \in 1..n |-> RMul(dayPredictions[j].predicted,
                                       dayPredictions[j].confidence)]),
             totalWeight)
      avgConfidence == RDiv(RSum([j \in 1..n |-> dayPredictions[j].confidence]), Num(n))
  IN  [timestamp  |-> dayPredictions[1].timestamp,
       predicted  |-> weightedPrice,
       confidence |-> avgConfidence,
       upperBound |-> dayPredictions[1].upperBound,
       lowerBound |-> dayPredictions[1].lowerBound,
       modelUsed  |-> "Ensemble",
       features   |-> Distinct(FlatMap([j \in 1..n |-> dayPredictions[j].features]))]

CombinedPrediction(dayPredictions) ==
  LET n == Len(dayPredictions)
      totalWeight == RSum([j \in 1..n |-> dayPredictions[j].confidence])
      weightedPrice ==
        RDiv(RSum([j \in 1..n |-> RMul(dayPredictions[j].predicted,
                                       dayPredictions[j].confidence)]),
             totalWeight)
      avgConfidence == RDiv(RSum([j \in 1..n |-> dayPredictions[j].confidence]), Num(n))
      allFeatures == Distinct(FlatMap([j \in 1..n |-> dayPredictions[j].features]))
  IN  [timestamp  |-> dayPredictions[1].timestamp,
       predicted  |-> weightedPrice,
       confidence |-> avgConfidence,
       upperBound |-> MathMax([j \in 1..n |-> dayPredictions[j].upperBound]),
       lowerBound |-> MathMin([j \in 1..n |-> dayPredictions[j].lowerBound]),
       modelUsed  |-> "Ensemble",
       features   |-> allFeatures]

(* The combined points of the 0-based days 0 .. numDays - 1. *)
RECURSIVE CombineDays(_, _)
CombineDays(modelPredictions, numDays) ==
  IF numDays = 0 THEN <<>>
  ELSE LET earlier == CombineDays(modelPredictions, numDays - 1)
           dayPredictions == DayPredictions(modelPredictions, numDays - 1)
       IN  IF Len(dayPredictions) = 0 THEN earlier
           ELSE Append(earlier, CombinedPrediction(dayPredictions))

(* Faulty: no test for an empty list; modelPredictions[0].length then      *)
(* throws a TypeError.                                                     *)
combineModelPredictionsUnguarded(modelPredictions) ==
  IF Len(modelPredictions) = 0 THEN <<"thrown", "TypeError">>
  ELSE CombineDays(modelPredictions, Len(modelPredictions[1]))

combineModelPredictions(modelPredictions) ==
  IF Len(modelPredictions) = 0 THEN <<>>
  ELSE CombineDays(modelPredictions, Len(modelPredictions[1]))

generateMockPredictions(symbol, days, rnd) ==
  LET RECURSIVE Price(_)
      Price(i) ==
        IF i = 0 THEN getBasePrice(symbol)
        ELSE RMul(Price(i - 1), RAdd(Frac(999, 1000), RMul(Random(rnd, i), Frac(2, 1000))))
  IN  [i \in 1..days |->
         LET currentPrice == Price(i)
             confidence == RMax2(Frac(6, 10), RSub(Frac(95, 100), RMul(Num(i), Frac(5, 100))))
             interval == RMul(RMul(currentPrice, Frac(3, 100)), Num(i))
         IN  [timestamp  |-> SplitT0(ToISOString(Today + i)),
              predicted  |-> currentPrice,
              confidence |-> confidence,
              upperBound |-> RAdd(currentPrice, interval),
              lowerBound |-> RSub(currentPrice, interval),
              modelUsed  |-> "Mock Ensemble",
              features   |-> <<"price_history", "technical_indicators", "volume">>]]

(* The three aggregates are drawn with the run's one draw rnd. *)
generateMockValidation(symbol, rnd) ==
  [symbol          |-> symbol,
   predictions     |-> generateMockPredictions(symbol, 7, rnd),
   overallAccuracy |-> RAdd(Frac(85, 100), RMul(rnd, Frac(1, 10))),
   mape            |-> RAdd(Frac(2, 100), RMul(rnd, Frac(3, 100))),
   rmse            |-> RAdd(Frac(15, 10), RMul(rnd, Num(2))),
   lastValidated   |-> ToISOString(Today)]

generateMockActualData(symbol, days, rnd) ==
  LET RECURSIVE Price(_)
      Price(k) ==
        IF k = 0 THEN getBasePrice(symbol)
        ELSE RMul(Price(k - 1), RAdd(Frac(998, 1000), RMul(Random(rnd, k), Frac(4, 1000))))
  IN  [k \in 1..(days + 1) |->
         [date |-> SplitT0(ToISOString(Today - (days - (k - 1)))), price |-> Price(k)]]

(* marketData: the market_data rows of the symbol since `days` days ago;   *)
(* with none, the external fetch returns mock data.                        *)
getActualMarketData(symbol, days, marketData, rnd) ==
  IF symbol \in KnownSymbols /\ Len(marketData) > 0
  THEN [k \in 1..Len(marketData) |->
          [date |-> SplitT0(marketData[k].timestamp), price |-> ParseFloat(marketData[k].price)]]
  ELSE generateMockActualData(symbol, days, rnd)

(* actualMap.get(date) after actualData.forEach(item => actualMap.set(...)) *)
ActualMapGet(actualData, date) ==
  LET hits == {k \in 1..Len(actualData) : actualData[k].date = date}
  IN  IF hits = {} THEN Undefined
      ELSE actualData[CHOOSE k \in hits : \A h \in hits : h <= k].price

ValidatedPrediction(pred, actualData) ==
  LET targetDate == SplitT0(pred.target_date)
      actualPrice == ActualMapGet(actualData, targetDate)
      accuracy ==
        IF Truthy(actualPrice)
        THEN LET error == RDiv(RAbs(RSub(ToNumber(pred.predicted_value), actualPrice)),
                               actualPrice)
             IN  RMax2(Zero, RSub(One, error))
        ELSE Undefined
  IN  [timestamp  |-> targetDate,
       predicted  |-> ParseFloat(pred.predicted_value),
       confidence |-> ParseFloat(pred.confidence_score),
       upperBound |-> RMul(ParseFloat(pred.predicted_value), Frac(105, 100)),
       lowerBound |-> RMul(ParseFloat(pred.predicted_value), Frac(95, 100)),
       actual     |-> actualPrice,
       accuracy   |-> accuracy,
       modelUsed  |-> IF pred.model_version = "" THEN "Unknown" ELSE pred.model_version,
       features   |-> ObjectKeys(pred.features_used)]

calculateAccuracyMetrics(predictions, actualData) ==
  [k \in 1..Len(predictions) |-> ValidatedPrediction(predictions[k], actualData)]

(* Faulty: the totals are divided by the number of all points, matched or  *)
(* not.                                                                    *)
calculateOverallMetricsAllPoints(predictions) ==
  LET validPredictions == SelectSeq(predictions, LAMBDA p : p.actual # Undefined)
      n == Len(validPredictions)
      Error(p) == RAbs(RSub(p.predicted, p.actual))
      counted == SelectSeq(validPredictions, LAMBDA p : Truthy(p.actual))
      m == Len(counted)
      totalAccuracy ==
        RSum([j \in 1..m |-> IF Truthy(counted[j].accuracy) THEN counted[j].accuracy ELSE Zero])
      totalMAPE == RSum([j \in 1..m |-> RDiv(Error(counted[j]), counted[j].actual)])
      totalRMSE == RSum([j \in 1..m |-> RSquare(Error(counted[j]))])
  IN  IF n = 0 THEN [accuracy |-> Zero, mape |-> Zero, rmse |-> Zero]
      ELSE [accuracy |-> RDiv(totalAccuracy, Num(Len(predictions))),
            mape     |-> RDiv(totalMAPE, Num(Len(predictions))),
            rmse     |-> RSqrt(RDiv(totalRMSE, Num(Len(predictions))))]

calculateOverallMetrics(predictions) ==
  LET validPredictions == SelectSeq(predictions, LAMBDA p : p.actual # Undefined)
      n == Len(validPredictions)
      Error(p) == RAbs(RSub(p.predicted, p.actual))
      counted == SelectSeq(validPredictions, LAMBDA p : Truthy(p.actual))
      m == Len(counted)
      totalAccuracy ==
        RSum([j \in 1..m |-> IF Truthy(counted[j].accuracy) THEN counted[j].accuracy ELSE Zero])
      totalMAPE == RSum([j \in 1..m |-> RDiv(Error(counted[j]), counted[j].actual)])
      totalRMSE == RSum([j \in 1..m |-> RSquare(Error(counted[j]))])
  IN  IF n = 0 THEN [accuracy |-> Zero, mape |-> Zero, rmse |-> Zero]
      ELSE [accuracy |-> RDiv(totalAccuracy, Num(n)),
            mape     |-> RDiv(totalMAPE, Num(n)),
            rmse     |-> RSqrt(RDiv(totalRMSE, Num(n)))]

(* The handler's outcome: the value it resolves with and whether it was    *)
(* written to validationCache.  Both throws are caught by the handler and  *)
(* answered with mock validation data.                                     *)
validatePredictions(symbol, predictions, marketData, rnd) ==
  IF symbol \notin KnownSymbols
  THEN [result |-> generateMockValidation(symbol, rnd), cached |-> FALSE,
        caught |-> "Symbol not found"]
  ELSE IF Len(predictions) = 0
  THEN [result |-> generateMockValidation(symbol, rnd), cached |-> FALSE,
        caught |-> "No predictions found for validation"]
  ELSE LET actualData == getActualMarketData(symbol, 7, marketData, rnd)
           validatedPredictions == calculateAccuracyMetrics(predictions, actualData)
           overallMetrics == calculateOverallMetrics(validatedPredictions)
       IN  [result |-> [symbol          |-> symbol,
                        predictions     |-> validatedPredictions,
                        overallAccuracy |-> overallMetrics.accuracy,
                        mape            |-> overallMetrics.mape,
                        rmse            |-> overallMetrics.rmse,
                        lastValidated   |-> ToISOString(Today)],
            cached |-> TRUE,
            caught |-> "nothing"]

(* Faulty: the window is the first 20 closes instead of the last 20. *)
detectMarketRegimeFirstWindow(prices) ==
  IF Len(prices) < 20 THEN "sideways"
  ELSE LET recent == JsSlice(prices, 0, 20)
           trend == RDiv(RSub(recent[Len(recent)], recent[1]), recent[1])
       IN  IF RGt(trend, Frac(5, 100)) THEN "bull"
           ELSE IF RLt(trend, Frac(-5, 100)) THEN "bear"
           ELSE "sideways"

detectMarketRegime(prices) ==
  IF Len(prices) < 20 THEN "sideways"
  ELSE LET recent == JsSlice(prices, -20, Len(prices))
           trend == RDiv(RSub(recent[Len(recent)], recent[1]), recent[1])
       IN  IF RGt(trend, Frac(5, 100)) THEN "bull"
           ELSE IF RLt(trend, Frac(-5, 100)) THEN "bear"
           ELSE "sideways"

calculateMomentum(prices) ==
  IF Len(prices) < 10 THEN Zero
  ELSE LET recent == JsSlice(prices, -10, Len(prices))
           older == JsSlice(prices, -20, -10)
           recentAvg == RDiv(RSum(recent), Num(Len(recent)))
           olderAvg == RDiv(RSum(older), Num(Len(older)))
       IN  RDiv(RSub(recentAvg, olderAvg), olderAvg)

-----------------------------------------------------------------------------
(* Inputs.                                                                 *)

Prices == {Num(p) : p \in 1..MaxPrice}

RECURSIVE SeqsUpTo(_, _)
SeqsUpTo(S, n) ==
  IF n = 0 THEN {<<>>}
  ELSE LET shorter == SeqsUpTo(S, n - 1)
       IN  shorter \cup {Append(s, x) : s \in {t \in shorter : Len(t) = n - 1}, x \in S}

PriceSeries == SeqsUpTo(Prices, MaxLen)

Periods == 1..MaxPeriod

Multipliers == {Num(-1), Zero, Num(2)}

(* OHLC bars with low <= close <= high. *)
Bars == {<<h, l, c>> \in (1..MaxBarPrice) \X (1..MaxBarPrice) \X (1..MaxBarPrice) :
           l <= c /\ c <= h}

BarSeries == SeqsUpTo(Bars, MaxBars)

Highs(bars) == [j \in 1..Len(bars) |-> Num(bars[j][1])]

Lows(bars) == [j \in 1..Len(bars) |-> Num(bars[j][2])]

Closes(bars) == [j \in 1..Len(bars) |-> Num(bars[j][3])]

(* A series that stays at 100 and ends with the closes of `tail`. *)
LateMove(n, tail) ==
  [i \in 1..n |-> IF i <= n - Len(tail) THEN Hundred ELSE tail[i - (n - Len(tail))]]

LateMoves == {<<>>, <<Num(110)>>, <<Num(110), Num(90)>>}

(* Lengths on both sides of the default warm-up periods. *)
LongLengths == {11, 12, 14, 15, 19, 20, 25, 26, 29, 30, 31, 39, 40, 47, 48}

LongSeries == {LateMove(n, tail) : n \in LongLengths, tail \in LateMoves}

MACDPeriods ==
  {<<DefaultFastPeriod, DefaultSlowPeriod, DefaultSignalPeriod>>,
   <<1, 2, 1>>, <<1, 2, 2>>, <<2, 3, 1>>}

(* The highs and lows one unit above and below the closes. *)
HighsOf(prices) == [i \in 1..Len(prices) |-> RAdd(prices[i], One)]

LowsOf(prices) == [i \in 1..Len(prices) |-> RSub(prices[i], One)]

Symbols == {"IBM", "AAPL"}

NoResult == [symbol |-> "none"]

PredictedPrices == {Num(100), Num(110)}

(* predicted_value column values: "100" and "110". *)
PredictedTexts == {DecimalText(<<1, 0, 0>>, <<>>), DecimalText(<<1, 1, 0>>, <<>>)}

(* price column values: "100.0" and "110". *)
PriceTexts == {DecimalText(<<1, 0, 0>>, <<0>>), DecimalText(<<1, 1, 0>>, <<>>)}

RandomDraws == {Zero, Half}

(* A forecast point as generateLSTMPredictions / generateARIMAPredictions  *)
(* build it for day i (1-based) and price currentPrice.                    *)
ModelPoint(kind, i, currentPrice) ==
  IF kind = "LSTM"
  THEN [timestamp  |-> SplitT0(ToISOString(Today + i)),
        predicted  |-> currentPrice,
        confidence |-> RMax2(Frac(6, 10), RSub(Frac(95, 100), RMul(Num(i), Frac(5, 100)))),
        upperBound |-> RMul(currentPrice, Frac(105, 100)),
        lowerBound |-> RMul(currentPrice, Frac(95, 100)),
        modelUsed  |-> "LSTM",
        features   |-> <<"price_history", "rsi", "macd", "volume", "volatility">>]
  ELSE [timestamp  |-> SplitT0(ToISOString(Today + i)),
        predicted  |-> currentPrice,
        confidence |-> RMax2(Frac(5, 10), RSub(Frac(9, 10), RMul(Num(i), Frac(8, 100)))),
        upperBound |-> RMul(currentPrice, Frac(108, 100)),
        lowerBound |-> RMul(currentPrice, Frac(92, 100)),
        modelUsed  |-> "ARIMA",
        features   |-> <<"price_returns", "volatility", "mean_reversion">>]

ModelOutputs ==
  {[i \in 1..Len(ps) |-> ModelPoint(kind, i, ps[i])] :
     kind \in {"LSTM", "ARIMA"}, ps \in SeqsUpTo(PredictedPrices, MaxDays)}

ModelPredictionLists == SeqsUpTo(ModelOutputs, MaxModels)

ValidationDays == Today..(Today + 1)

IsAscending(days) == \A j \in 1..(Len(days) - 1) : days[j] <= days[j + 1]

(* ai_predictions rows of a symbol, ordered by target_date ascending. *)
StoredPrediction(day, value) ==
  [target_date      |-> IsoString(day, 0),
   predicted_value  |-> value,
   confidence_score |-> DecimalText(<<0>>, <<9>>),
   model_version    |-> "Ensemble",
   features_used    |-> <<<<"price_history", TRUE>>>>]

StoredPredictions ==
  {[k \in 1..Len(rows) |-> StoredPrediction(rows[k][1], rows[k][2])] :
     rows \in {r \in SeqsUpTo(ValidationDays \X PredictedTexts, MaxStored) :
                 IsAscending([k \in 1..Len(r) |-> r[k][1]])}}

(* The validatePredictions calls that can be in progress together. *)
Requests == 1..MaxRequests

(* A request slot with no call in progress. *)
Idle == [pc |-> "idle", symbol |-> "", predictions |-> <<>>]

(* market_data rows of a symbol, ordered by timestamp ascending. *)
MarketRows ==
  {[k \in 1..Len(rows) |-> [timestamp |-> IsoString(rows[k][1], 0), price |-> rows[k][2]]] :
     rows \in {r \in SeqsUpTo(ValidationDays \X PriceTexts, MaxMarketRows) :
                 IsAscending([k \in 1..Len(r) |-> r[k][1]])}}

(* Price histories: n closes of which the first k are 100 and the others   *)
(* are b, and n closes on a straight line from a to b.                     *)
TwoLevel(n, k, b) == [i \in 1..n |-> IF i <= k THEN Hundred ELSE b]

Ramp(n, a, b) == [i \in 1..n |-> RAdd(a, RDiv(RMul(RSub(b, a), Num(i - 1)), Num(n - 1)))]

Histories ==
  {TwoLevel(n, k, b) : n \in 0..MaxHistory, k \in 0..MaxHistory,
                       b \in {Num(94), Num(95), Num(105), Num(106)}}
  \cup {Ramp(n, Hundred, Num(130)) : n \in 2..MaxHistory}
  \cup {Ramp(n, Num(130), Hundred) : n \in 2..MaxHistory}

-----------------------------------------------------------------------------
(* PredictionService: the forecast models and generateEnhancedPredictions. *)

(* a || b *)
ValueOr(a, b) == IF Truthy(a) THEN a ELSE b

(* xs?.[xs.length - 1] || fallback *)
LastOr(xs, fallback) == IF Len(xs) = 0 THEN fallback ELSE ValueOr(xs[Len(xs)], fallback)

(* Math.pow(a, n) for an integer n >= 0. *)
RECURSIVE RPow(_, _)
RPow(a, n) == IF n = 0 THEN One ELSE RMul(RPow(a, n - 1), a)

calculateReturns(prices) ==
  [i \in 1..IMax2(0, Len(prices) - 1) |->
     RDiv(RSub(prices[i + 1], prices[i]), prices[i])]

calculateVolatility(prices) ==
  LET returns == Filled(calculateReturns(prices))
      mean == RDiv(RSum(returns), Num(Len(returns)))
      variance == RDiv(RSum([i \in 1..Len(returns) |-> RSquare(RSub(returns[i], mean))]),
                       Num(Len(returns)))
  IN  RSqrt(variance)

calculateTrendFactor(rsi, macd, dayAhead) ==
  LET afterRSI == RAdd(IF RGt(rsi, Num(70)) THEN Frac(-1, 1000) ELSE Zero,
                       IF RLt(rsi, Num(30)) THEN Frac(1, 1000) ELSE Zero)
      afterMACD == RAdd(afterRSI,
                        RAdd(IF RGt(macd, Zero) THEN Frac(5, 10000) ELSE Zero,
                             IF RLt(macd, Zero) THEN Frac(-5, 10000) ELSE Zero))
  IN  IF afterMACD = Zero THEN Zero  \* 0 * Math.pow(0.95, n) is 0
      ELSE RMul(afterMACD, RPow(Frac(95, 100), dayAhead - 1))

(* The bundle without its seasonality field (counts of the rows by weekday *)
(* and month), which no model reads.                                       *)
extractFeatures(data) ==
  LET prices == [k \in 1..Len(data) |-> ValueOr(data[k].close_price, data[k].price)]
      volumes == [k \in 1..Len(data) |-> data[k].volume]
      highs == [k \in 1..Len(data) |-> ValueOr(data[k].high_price, data[k].price)]
      lows == [k \in 1..Len(data) |-> ValueOr(data[k].low_price, data[k].price)]
  IN  [prices |-> prices,
       volumes |-> volumes,
       highs |-> highs,
       lows |-> lows,
       technicalIndicators |-> calculateAll(prices, Present(highs), Present(lows)),
       volatility |-> calculateVolatility(prices),
       momentum |-> calculateMomentum(prices),
       marketRegime |-> detectMarketRegime(prices)]

generateLSTMPredictions(features, days, rnd) ==
  LET prices == features.prices
      rsi == LastOr(features.technicalIndicators.rsi, Num(50))
      macd == LastOr(features.technicalIndicators.macd.macd, Zero)
      RECURSIVE Price(_)
      Price(i) ==
        IF i = 0 THEN prices[Len(prices)]
        ELSE LET trendFactor == calculateTrendFactor(rsi, macd, i)
                 volatilityAdjustment == RMul(RMul(features.volatility, Random(rnd, i)), Half)
             IN  RMul(Price(i - 1), RAdd(RAdd(One, trendFactor), volatilityAdjustment))
  IN  [i \in 1..days |-> ModelPoint("LSTM", i, Price(i))]

generateARIMAPredictions(features, days, rnd) ==
  LET prices == features.prices
      returns == Filled(calculateReturns(prices))
      avgReturn == RDiv(RSum(returns), Num(Len(returns)))
      volatility ==
        RSqrt(RDiv(RSum([i \in 1..Len(returns) |-> RSquare(RSub(returns[i], avgReturn))]),
                   Num(Len(returns))))
      RECURSIVE Price(_)
      Price(i) ==
        IF i = 0 THEN prices[Len(prices)]
        ELSE LET randomShock == RMul(RMul(RSub(Random(rnd, i), Half), volatility), Num(2))
                 meanReversion == RMul(avgReturn, Half)
             IN  RMul(Price(i - 1), RAdd(RAdd(One, meanReversion), randomShock))
  IN  [i \in 1..days |-> ModelPoint("ARIMA", i, Price(i))]

addConfidenceIntervals(predictions, features) ==
  LET volatility == ValueOr(features.volatility, Frac(2, 100))
  IN  [k \in 1..Len(predictions) |->
         LET pred == predictions[k]
             confidenceMultiplier == RAdd(RMul(RSub(One, pred.confidence), Num(2)), One)
             interval == RMul(RMul(pred.predicted, volatility), confidenceMultiplier)
         IN  [pred EXCEPT !.upperBound = RAdd(pred.predicted, interval),
                          !.lowerBound = RSub(pred.predicted, interval)]]

(* The rows getHistoricalDataForPrediction resolves with: none for a       *)
(* symbol without a market_symbols row, else the historical_data rows of   *)
(* the symbol, newest first, at most `limit` of them.                      *)
getHistoricalDataForPrediction(symbol, limit, rows) ==
  IF symbol \notin KnownSymbols THEN <<>> ELSE JsSlice(rows, 0, limit)

(* How the promise of an async method settles. *)
Resolved(value) == [settled |-> "resolved", value |-> value]

Rejected == [settled |-> "rejected", value |-> <<>>]

(* Faulty: a throw of an internal step is not caught; the call rejects. *)
generateEnhancedPredictionsUncaught(symbol, days, rows, rndLSTM, rndARIMA, rndMock, fault) ==
  LET historicalData == getHistoricalDataForPrediction(symbol, 100, rows)
  IN  IF fault THEN Rejected
      ELSE IF Len(historicalData) < 30
      THEN Resolved(generateMockPredictions(symbol, days, rndMock))
      ELSE LET features == extractFeatures(historicalData)
               lstmPredictions == generateLSTMPredictions(features, days, rndLSTM)
               arimaPredictions == generateARIMAPredictions(features, days, rndARIMA)
               ensemblePredictions == combineModelPredictions(<<lstmPredictions, arimaPredictions>>)
           IN  Resolved(addConfidenceIntervals(ensemblePredictions, features))

(* How the call settles.  fault: a step inside the try block throws (the   *)
(* timer, a malformed row in extractFeatures); the catch answers with mock *)
(* predictions.  storePredictions catches its own errors and writes        *)
(* nothing.                                                                *)
generateEnhancedPredictions(symbol, days, rows, rndLSTM, rndARIMA, rndMock, fault) ==
  LET historicalData == getHistoricalDataForPrediction(symbol, 100, rows)
  IN  IF fault THEN Resolved(generateMockPredictions(symbol, days, rndMock))
      ELSE IF Len(historicalData) < 30
      THEN Resolved(generateMockPredictions(symbol, days, rndMock))
      ELSE LET features == extractFeatures(historicalData)
               lstmPredictions == generateLSTMPredictions(features, days, rndLSTM)
               arimaPredictions == generateARIMAPredictions(features, days, rndARIMA)
               ensemblePredictions == combineModelPredictions(<<lstmPredictions, arimaPredictions>>)
           IN  Resolved(addConfidenceIntervals(ensemblePredictions, features))

(* historical_data rows as the query returns them, newest first: row k has *)
(* the close closes[k] and is dated k - 1 days before seriesEnd, the date  *)
(* of the newest row.                                                      *)
HistoricalRows(closes, seriesEnd) ==
  [k \in 1..Len(closes) |->
     LET close == closes[k]
     IN  [date        |-> SplitT0(ToISOString(seriesEnd - (k - 1))),
          close_price |-> close,
          high_price  |-> RAdd(close, One),
          low_price   |-> RSub(close, One),
          price       |-> Undefined,
          volume      |-> Num(1000)]]

(* Closes at 100 whose last rows, the oldest, are those of `tail`: a rise  *)
(* of a half followed by a fall of a half (returns summing to zero), and a *)
(* spike to more than ten times the price (returns summing to 9).          *)
SteadyTail == <<Num(150), Num(75)>>

SpikeTail == <<Num(1050), Num(525)>>

SwingTails == {SteadyTail, SpikeTail}

(* Constant closes (an RSI of 100), and one close of 90 in the oldest row  *)
(* (an RSI of 0).                                                          *)
TrendTails == {<<>>, <<Num(90)>>}

SeriesEnds == {Today - 1, Today}

SwingHistories ==
  {HistoricalRows(LateMove(31, tail), seriesEnd) :
     tail \in SwingTails, seriesEnd \in SeriesEnds}

TrendHistories ==
  {HistoricalRows(LateMove(30, tail), seriesEnd) :
     tail \in TrendTails, seriesEnd \in SeriesEnds}

ShortHistories == {HistoricalRows(LateMove(29, SteadyTail), Today), <<>>}

(* The horizons asked of a model: 0 to MaxDays days, and at most 1 day for  *)
(* a history with a non-zero trend factor or mean return, whose price walk *)
(* has denominators growing by a factor 20 a day.  A walk that stays at    *)
(* its first price is also asked for LongDays days: the trend-decay walk   *)
(* from the history with an RSI of 0, the mean-reversion walk from the     *)
(* constant history.                                                       *)
Horizons(kind, data) ==
  IF data \in TrendHistories
  THEN 0..1 \cup (IF (kind = "LSTM") = (data[Len(data)].close_price # Hundred)
                  THEN {LongDays} ELSE {})
  ELSE 0..MaxDays

(* The horizons asked of the ensemble: its confidence-weighted averages    *)
(* and intervals stay small over MaxDays days for the histories whose      *)
(* returns sum to zero, and for the histories answered with mock points.   *)
EnsembleHorizons(rows) ==
  IF Len(rows) < 30 \/ rows[Len(rows)].close_price = SteadyTail[2] THEN 0..MaxDays ELSE 0..1

-----------------------------------------------------------------------------
(* The state of APIClient and of the data services after construction.     *)

(* The 60000 ms of checkRateLimit. *)
Minute == 60000

(* Date.now() advances in steps of Minute / TicksPerMinute. *)
Tick == Minute \div TicksPerMinute

(* Date.now() at the first call: more than a minute after the epoch, so    *)
(* that now - 0 > 60000 for the limiter default.                           *)
StartTime == Minute + Tick

EndTime == StartTime + MaxTicks * Tick

(* const limits = { alphaVantage: 5, finnhub: 60, newsApi: 100 } *)
limits == [alphaVantage |-> 5, finnhub |-> 60, newsApi |-> 100]

(* The API name the calls are made for: the limits of the other two are    *)
(* beyond MaxCalls.                                                        *)
ApiNames == {"alphaVantage"}

Fetches == 1..MaxFetches

(* this.rateLimiters.get(apiName) || { lastCall: 0, callCount: 0 } for a   *)
(* name without an entry.                                                  *)
NoLimiter == [present |-> FALSE, lastCall |-> 0, callCount |-> 0]

IdleCheck == [pc |-> "idle", apiName |-> "", now |-> 0, wake |-> 0]

(* private isUsingRealData: boolean = true; never assigned again. *)
isUsingRealData == TRUE

NoFetch == [pc |-> "idle", sourceCalls |-> 0, data |-> "none"]

-----------------------------------------------------------------------------
(* State machine of the indicator library: each action is one call.        *)

Init ==
  /\ call = [op |-> "none"]
  /\ ret = <<"none", <<>>>>
  /\ validationCache = [s \in Symbols |-> NoResult]
  /\ inFlight = [r \in Requests |-> Idle]
  /\ now = StartTime
  /\ rateLimiters = [apiName \in ApiNames |-> NoLimiter]
  /\ rateChecks = [r \in Fetches |-> IdleCheck]
  /\ admitted = [apiName \in ApiNames |-> <<>>]
  /\ marketSource = "up"
  /\ latestFetch = NoFetch
  /\ realtimeSubscription = FALSE
  /\ periodicTimers = 0
  /\ pendingInserts = 0
  /\ updatesStarted = FALSE
  /\ lastCallback = "none"

CalculateRSI ==
  /\ call.op = "none"
  /\ \E prices \in PriceSeries, period \in Periods :
       /\ call' = [op |-> "calculateRSI", prices |-> prices, period |-> period]
       /\ ret' = <<"calculateRSI", calculateRSI(prices, period)>>
       /\ UNCHANGED <<validationCache, inFlight, apiClientVars, dataServiceVars>>

CalculateSMA ==
  /\ call.op = "none"
  /\ \E prices \in PriceSeries, period \in Periods :
       /\ call' = [op |-> "calculateSMA", prices |-> prices, period |-> period]
       /\ ret' = <<"calculateSMA", calculateSMA(prices, period)>>
       /\ UNCHANGED <<validationCache, inFlight, apiClientVars, dataServiceVars>>

CalculateEMA ==
  /\ call.op = "none"
  /\ \E prices \in PriceSeries, period \in Periods :
       /\ call' = [op |-> "calculateEMA", prices |-> prices, period |-> period]
       /\ ret' = <<"calculateEMA", calculateEMA(prices, period)>>
       /\ UNCHANGED <<validationCache, inFlight, apiClientVars, dataServiceVars>>

CalculateBollingerBands ==
  /\ call.op = "none"
  /\ \E prices \in PriceSeries, period \in Periods, stdDev \in Multipliers :
       /\ call' = [op |-> "calculateBollingerBands", prices |-> prices, period |-> period,
                   stdDev |-> stdDev]
       /\ ret' = <<"calculateBollingerBands",
                 calculateBollingerBands(prices, period, stdDev)>>
       /\ UNCHANGED <<validationCache, inFlight, apiClientVars, dataServiceVars>>

CalculateStochastic ==
  /\ call.op = "none"
  /\ \E bars \in BarSeries, kPeriod \in Periods, dPeriod \in 1..MaxDPeriod :
       /\ call' = [op |-> "calculateStochastic", highs |-> Highs(bars), lows |-> Lows(bars),
                   closes |-> Closes(bars), kPeriod |-> kPeriod, dPeriod |-> dPeriod]
       /\ ret' = <<"calculateStochastic",
                 calculateStochastic(Highs(bars), Lows(bars), Closes(bars),
                                     kPeriod, dPeriod)>>
       /\ UNCHANGED <<validationCache, inFlight, apiClientVars, dataServiceVars>>

Next ==
  \/ CalculateRSI
  \/ CalculateSMA
  \/ CalculateEMA
  \/ CalculateBollingerBands
  \/ CalculateStochastic

Spec == Init /\ [][Next]_vars

CalculateMACD ==
  /\ call.op = "none"
  /\ \E prices \in PriceSeries \cup LongSeries, periods \in MACDPeriods :
       /\ call' = [op |-> "calculateMACD", prices |-> prices, fastPeriod |-> periods[1],
                   slowPeriod |-> periods[2], signalPeriod |-> periods[3]]
       /\ ret' = <<"calculateMACD",
                 calculateMACD(prices, periods[1], periods[2], periods[3])>>
       /\ UNCHANGED <<validationCache, inFlight, apiClientVars, dataServiceVars>>

CalculateATR ==
  /\ call.op = "none"
  /\ \E bars \in BarSeries, period \in Periods, dropped \in 0..1 :
       LET lows == JsSlice(Lows(bars), 0, Len(bars) - dropped)
       IN  /\ call' = [op |-> "calculateATR", highs |-> Highs(bars), lows |-> lows,
                       closes |-> Closes(bars), period |-> period]
           /\ ret' = <<"calculateATR", calculateATR(Highs(bars), lows, Closes(bars), period)>>
           /\ UNCHANGED <<validationCache, inFlight, apiClientVars, dataServiceVars>>

(* The highs, lows and closes given to calculateADX: those of the bar      *)
(* series, and closes with their highs and lows one unit apart.            *)
ADXInputs ==
  {<<Highs(bars), Lows(bars), Closes(bars)>> : bars \in BarSeries}
  \cup {<<HighsOf(prices), LowsOf(prices), prices>> : prices \in PriceSeries}

CalculateADX ==
  /\ call.op = "none"
  /\ \E hlc \in ADXInputs, period \in Periods :
       /\ call' = [op |-> "calculateADX", highs |-> hlc[1], lows |-> hlc[2],
                   closes |-> hlc[3], period |-> period]
       /\ ret' = <<"calculateADX", calculateADX(hlc[1], hlc[2], hlc[3], period)>>
       /\ UNCHANGED <<validationCache, inFlight, apiClientVars, dataServiceVars>>

CalculateAll ==
  /\ call.op = "none"
  /\ \E prices \in PriceSeries \cup LongSeries, ohlc \in BOOLEAN :
       LET highs == IF ohlc THEN Present(HighsOf(prices)) ELSE Absent
           lows  == IF ohlc THEN Present(LowsOf(prices)) ELSE Absent
       IN  /\ call' = [op |-> "calculateAll", prices |-> prices, highs |-> highs,
                       lows |-> lows]
           /\ ret' = <<"calculateAll", calculateAll(prices, highs, lows)>>
           /\ UNCHANGED <<validationCache, inFlight, apiClientVars, dataServiceVars>>

DetectPatterns ==
  /\ call.op = "none"
  /\ \E prices \in PriceSeries \cup LongSeries :
       /\ call' = [op |-> "detectPatterns", prices |-> prices]
       /\ ret' = <<"detectPatterns", detectPatterns(prices)>>
       /\ UNCHANGED <<validationCache, inFlight, apiClientVars, dataServiceVars>>

EdgeCalculateRSI ==
  /\ call.op = "none"
  /\ \E prices \in PriceSeries, period \in Periods :
       /\ call' = [op |-> "edgeCalculateRSI", prices |-> prices, period |-> period]
       /\ ret' = <<"edgeCalculateRSI", edgeCalculateRSI(prices, period)>>
       /\ UNCHANGED <<validationCache, inFlight, apiClientVars, dataServiceVars>>

NextIndicators ==
  \/ CalculateRSI
  \/ CalculateSMA
  \/ CalculateEMA
  \/ CalculateBollingerBands
  \/ CalculateStochastic
  \/ CalculateMACD
  \/ CalculateATR
  \/ CalculateADX
  \/ CalculateAll
  \/ DetectPatterns
  \/ EdgeCalculateRSI

SpecIndicators == Init /\ [][NextIndicators]_vars

-----------------------------------------------------------------------------
(* State machine of the prediction service: each action is one call.       *)

CombineModelPredictions ==
  /\ call.op = "none"
  /\ \E modelPredictions \in ModelPredictionLists :
       /\ call' = [op |-> "combineModelPredictions", modelPredictions |-> modelPredictions]
       /\ ret' = <<"combineModelPredictions",
                 combineModelPredictions(modelPredictions)>>
       /\ UNCHANGED <<validationCache, inFlight, apiClientVars, dataServiceVars>>

ValidatePredictions ==
  /\ call.op = "none"
  /\ \E symbol \in Symbols, predictions \in StoredPredictions, marketData \in MarketRows,
        rnd \in RandomDraws :
       /\ symbol \notin KnownSymbols => (predictions = <<>> /\ marketData = <<>>)
       /\ call' = [op |-> "validatePredictions", symbol |-> symbol,
                   predictions |-> predictions, marketData |-> marketData, rnd |-> rnd,
                   caught |-> validatePredictions(symbol, predictions, marketData, rnd).caught]
       /\ ret' = <<"validatePredictions",
                 validatePredictions(symbol, predictions, marketData, rnd).result>>
       /\ validationCache' =
            IF validatePredictions(symbol, predictions, marketData, rnd).cached
            THEN [validationCache EXCEPT
                    ![symbol] = validatePredictions(symbol, predictions, marketData, rnd).result]
            ELSE validationCache
       /\ UNCHANGED <<inFlight, apiClientVars, dataServiceVars>>

DetectMarketRegime ==
  /\ call.op = "none"
  /\ \E prices \in Histories :
       /\ call' = [op |-> "detectMarketRegime", prices |-> prices]
       /\ ret' = <<"detectMarketRegime", detectMarketRegime(prices)>>
       /\ UNCHANGED <<validationCache, inFlight, apiClientVars, dataServiceVars>>

CalculateMomentum ==
  /\ call.op = "none"
  /\ \E prices \in Histories :
       /\ call' = [op |-> "calculateMomentum", prices |-> prices]
       /\ ret' = <<"calculateMomentum", calculateMomentum(prices)>>
       /\ UNCHANGED <<validationCache, inFlight, apiClientVars, dataServiceVars>>

NextPrediction ==
  \/ CombineModelPredictions
  \/ ValidatePredictions
  \/ DetectMarketRegime
  \/ CalculateMomentum

SpecPrediction == Init /\ [][NextPrediction]_vars

-----------------------------------------------------------------------------
(* Properties of the indicator library, checked under Spec.                *)

InRSIRange(x) == IsFinite(x) /\ RLe(Zero, x) /\ RLe(x, Hundred)

(* C1: every value calculateRSI emits is a number in the closed range      *)
(* [0, 100]: never negative, never above 100, never NaN.                   *)
C1_RSIInRange ==
  call.op = "calculateRSI" => \A k \in 1..Len(ret[2]) : InRSIRange(ret[2][k])

(* A series that rises and falls gives values strictly inside the range,   *)
(* next to a window of losses only, which gives exactly 0.                 *)
C1_Witness ==
  /\ call.op = "calculateRSI"
  /\ \E k \in 1..Len(ret[2]) : RLt(Zero, ret[2][k]) /\ RLt(ret[2][k], Hundred)
  /\ \E k \in 1..Len(ret[2]) : REq(ret[2][k], Zero)

(* C2: calculateRSI returns the empty sequence exactly when                *)
(* len(closes) <= period, and len(closes) - period values otherwise.       *)
C2_RSILength ==
  call.op = "calculateRSI" =>
    /\ (Len(ret[2]) = 0) <=> (Len(call.prices) <= call.period)
    /\ Len(call.prices) > call.period => Len(ret[2]) = Len(call.prices) - call.period

C2_Witness ==
  /\ call.op = "calculateRSI"
  /\ call.period >= 2
  /\ Len(call.prices) = call.period + 2
  /\ Len(ret[2]) = 2

(* C3: the three Bollinger bands have the same length and, for a           *)
(* non-negative multiplier, upper[i] >= middle[i] >= lower[i] at every i.  *)
C3_BollingerOrdered ==
  (call.op = "calculateBollingerBands" /\ RGe(call.stdDev, Zero)) =>
    /\ Len(ret[2].upper) = Len(ret[2].middle)
    /\ Len(ret[2].lower) = Len(ret[2].middle)
    /\ \A k \in 1..Len(ret[2].middle) :
         /\ RGe(ret[2].upper[k], ret[2].middle[k])
         /\ RGe(ret[2].middle[k], ret[2].lower[k])

(* A window of unequal prices under a positive multiplier: the bands are   *)
(* strictly apart.                                                         *)
C3_Witness ==
  /\ call.op = "calculateBollingerBands"
  /\ RGt(call.stdDev, Zero)
  /\ Len(ret[2].middle) >= 2
  /\ \E k \in 1..Len(ret[2].middle) :
       /\ RGt(ret[2].upper[k], ret[2].middle[k])
       /\ RGt(ret[2].middle[k], ret[2].lower[k])

(* The arithmetic mean of the first `period` values. *)
FirstWindowMean(values, period) ==
  RDiv(RSum([j \in 1..period |-> values[j]]), Num(period))

(* C4: with len(values) >= period, calculateSMA and calculateEMA each emit *)
(* len(values) - period + 1 values and the first value of both is the mean *)
(* of the first `period` values; with len(values) < period both are empty. *)
C4_SMAEMAFirstValue ==
  call.op \in {"calculateSMA", "calculateEMA"} =>
    LET sma == IF call.op = "calculateSMA" THEN ret[2]
               ELSE calculateSMA(call.prices, call.period)
        ema == IF call.op = "calculateEMA" THEN ret[2]
               ELSE calculateEMA(call.prices, call.period)
    IN  IF Len(call.prices) >= call.period
        THEN /\ Len(sma) = Len(call.prices) - call.period + 1
             /\ Len(ema) = Len(call.prices) - call.period + 1
             /\ REq(sma[1], FirstWindowMean(call.prices, call.period))
             /\ REq(ema[1], FirstWindowMean(call.prices, call.period))
             /\ REq(sma[1], ema[1])
        ELSE sma = <<>> /\ ema = <<>>

(* An EMA over a first window of unequal prices, followed by more values.  *)
C4_Witness ==
  /\ call.op = "calculateEMA"
  /\ call.period >= 2
  /\ Len(ret[2]) >= 2
  /\ call.prices[1] # call.prices[call.period]
  /\ ret[2][1] # ret[2][2]

(* The price changes of the RSI window that yields output k are all        *)
(* non-negative, i.e. the window's average loss is 0.                      *)
NoLossInWindow(prices, period, k) ==
  \A j \in k..(k + period - 1) : RGe(prices[j + 1], prices[j])

(* All highs and lows of the stochastic window that yields %K[k] are one   *)
(* and the same value, i.e. highestHigh = lowestLow.                       *)
FlatWindow(highs, lows, kPeriod, k) ==
  \E v \in {highs[k]} :
    \A j \in k..(k + kPeriod - 1) : REq(highs[j], v) /\ REq(lows[j], v)

(* C9: degenerate divisions are defined: calculateRSI emits exactly 100    *)
(* for every window whose average loss is 0 (a constant series included),  *)
(* calculateStochastic emits %K = 50 for every window with                 *)
(* highestHigh = lowestLow, and no emitted value is NaN or infinite.       *)
C9_DegenerateDivisions ==
  /\ call.op = "calculateRSI" =>
       \A k \in 1..Len(ret[2]) :
         /\ IsFinite(ret[2][k])
         /\ NoLossInWindow(call.prices, call.period, k) => REq(ret[2][k], Hundred)
  /\ call.op = "calculateStochastic" =>
       \A k \in 1..Len(ret[2].k) :
         /\ IsFinite(ret[2].k[k])
         /\ FlatWindow(call.highs, call.lows, call.kPeriod, k) => REq(ret[2].k[k], Num(50))

(* A constant price series (gains and losses both 0) with RSI output. *)
C9_Witness ==
  /\ call.op = "calculateRSI"
  /\ Len(ret[2]) >= 2
  /\ \A j \in 1..Len(call.prices) : call.prices[j] = call.prices[1]
  /\ \A k \in 1..Len(ret[2]) : REq(ret[2][k], Hundred)

(* A stochastic window whose highs and lows are all equal. *)
C9_WitnessStochastic ==
  /\ call.op = "calculateStochastic"
  /\ call.kPeriod >= 2
  /\ Len(ret[2].k) >= 1
  /\ FlatWindow(call.highs, call.lows, call.kPeriod, 1)
  /\ REq(ret[2].k[1], Num(50))

-----------------------------------------------------------------------------
(* Properties of the prediction service, checked under SpecPrediction.     *)

(* The predicted prices of the models that have a point for 1-based day d. *)
ContributorPrices(modelPredictions, d) ==
  {modelPredictions[m][d].predicted :
     m \in {x \in 1..Len(modelPredictions) : Len(modelPredictions[x]) >= d}}

C8_CombineEmpty ==
  (call.op = "combineModelPredictions" /\ Len(call.modelPredictions) = 0) => ret[2] = <<>>

C8_Witness ==
  /\ call.op = "combineModelPredictions"
  /\ call.modelPredictions = <<>>
  /\ ret[2] = <<>>

(* The realized prices validatePredictions compares the forecast with. *)
RealizedPrices == getActualMarketData(call.symbol, 7, call.marketData, call.rnd)

ForecastDay(k) == call.predictions[k].target_date[1]

NoForecastDateRealized ==
  \A k \in 1..Len(call.predictions) :
    \A j \in 1..Len(RealizedPrices) : RealizedPrices[j].date[1] # ForecastDay(k)

ZeroAggregatesAndBarePoints ==
  /\ ret[2].overallAccuracy = Zero
  /\ ret[2].mape = Zero
  /\ ret[2].rmse = Zero
  /\ Len(ret[2].predictions) = Len(call.predictions)
  /\ \A k \in 1..Len(call.predictions) :
       /\ ret[2].predictions[k].timestamp[1] = ForecastDay(k)
       /\ ret[2].predictions[k].predicted = ParseFloat(call.predictions[k].predicted_value)
       /\ ret[2].predictions[k].actual = Undefined
       /\ ret[2].predictions[k].accuracy = Undefined

(* C6: for any forecast sequence, the empty one included, of which no date *)
(* has a realized price, validation yields overallAccuracy = mape = rmse   *)
(* = 0 and the forecast entries as points, actual and accuracy absent.     *)
C6_NoMatchZeroAggregates ==
  (call.op = "validatePredictions" /\ call.symbol \in KnownSymbols /\ NoForecastDateRealized)
    => ZeroAggregatesAndBarePoints

(* C6 for the forecast sequences that have at least one point. *)
C6_NoMatchZeroAggregatesNonEmpty ==
  (/\ call.op = "validatePredictions"
   /\ call.symbol \in KnownSymbols
   /\ Len(call.predictions) > 0
   /\ NoForecastDateRealized)
    => ZeroAggregatesAndBarePoints

C6_NonEmptyReached ==
  /\ call.op = "validatePredictions"
  /\ call.symbol \in KnownSymbols
  /\ Len(call.predictions) = 2
  /\ Len(call.marketData) > 0
  /\ NoForecastDateRealized
  /\ ret[2].overallAccuracy = Zero

(* Every forecast date has realized prices, all equal to the forecast's    *)
(* predicted price for that date.                                          *)
RealizedEqualsForecast ==
  \A k \in 1..Len(call.predictions) :
    /\ \E j \in 1..Len(RealizedPrices) : RealizedPrices[j].date[1] = ForecastDay(k)
    /\ \A j \in 1..Len(RealizedPrices) :
         RealizedPrices[j].date[1] = ForecastDay(k)
           => RealizedPrices[j].price = ParseFloat(call.predictions[k].predicted_value)

PerfectValidation ==
  /\ ret[2].overallAccuracy = One
  /\ ret[2].mape = Zero
  /\ ret[2].rmse = Zero
  /\ \A k \in 1..Len(call.predictions) : ret[2].predictions[k].accuracy = One

(* C7 as stated: validating any forecast sequence against realized prices  *)
(* equal to its own predicted prices yields accuracy 1 for every point and *)
(* overallAccuracy = 1, mape = 0, rmse = 0.                                *)
C7_RoundTripAnyForecast ==
  (call.op = "validatePredictions" /\ call.symbol \in KnownSymbols /\ RealizedEqualsForecast)
    => PerfectValidation

(* C7 as amended: validating a forecast sequence of at least one point     *)
(* against realized prices equal to its own predicted prices yields        *)
(* accuracy 1 for every point and overallAccuracy = 1, mape = 0, rmse = 0. *)
C7_RoundTrip ==
  (/\ call.op = "validatePredictions"
   /\ call.symbol \in KnownSymbols
   /\ Len(call.predictions) > 0
   /\ RealizedEqualsForecast)
    => PerfectValidation

(* A forecast for two different days with different prices, validated      *)
(* against itself.                                                         *)
C7_Witness ==
  /\ call.op = "validatePredictions"
  /\ call.symbol \in KnownSymbols
  /\ Len(call.predictions) = 2
  /\ ForecastDay(1) # ForecastDay(2)
  /\ ParseFloat(call.predictions[1].predicted_value)
       # ParseFloat(call.predictions[2].predicted_value)
  /\ \E j \in 1..Len(call.marketData) :
       /\ call.marketData[j].timestamp[1] = ForecastDay(1)
       /\ call.marketData[j].price # call.predictions[1].predicted_value
  /\ RealizedEqualsForecast
  /\ ret[2].overallAccuracy = One
  /\ validationCache[call.symbol] = ret[2]

Constant30 == [i \in 1..30 |-> Hundred]

Rising30 == Ramp(30, Hundred, Num(130))

(* The regime as the specification words it: return over the trailing 20   *)
(* closes against +5% and -5%, (last - first)/first > 1/20 being           *)
(* 20 * (last - first) > first for a positive first close.                 *)
ClaimedRegime(prices) ==
  IF Len(prices) < 20 THEN "sideways"
  ELSE LET first == prices[Len(prices) - 19]
           last == prices[Len(prices)]
       IN  IF RGt(RMul(Num(20), RSub(last, first)), first) THEN "bull"
           ELSE IF RLt(RMul(Num(20), RSub(last, first)), RNeg(first)) THEN "bear"
           ELSE "sideways"

(* C10: the regime is bull / bear / sideways by the trailing-20 return     *)
(* against +5% / -5%, sideways below 20 closes; 30 constant closes give    *)
(* sideways and momentum 0; 30 closes rising from 100 to 130 give bull.    *)
C10_MarketRegime ==
  /\ call.op = "detectMarketRegime" => ret[2] = ClaimedRegime(call.prices)
  /\ (call.op = "detectMarketRegime" /\ call.prices = Constant30) => ret[2] = "sideways"
  /\ (call.op = "detectMarketRegime" /\ call.prices = Rising30) => ret[2] = "bull"
  /\ (call.op = "calculateMomentum" /\ call.prices = Constant30) => ret[2] = Zero

C10_Witness ==
  /\ call.op = "detectMarketRegime"
  /\ call.prices = Rising30
  /\ ret[2] = "bull"

C10_WitnessConstant ==
  /\ call.op = "calculateMomentum"
  /\ call.prices = Constant30
  /\ ret[2] = Zero

C10_WitnessBear ==
  /\ call.op = "detectMarketRegime"
  /\ Len(call.prices) > 20
  /\ call.prices[1] = Hundred
  /\ ret[2] = "bear"

-----------------------------------------------------------------------------
(* State machine of the forecast: each action is one call.                 *)

GenerateLSTMPredictions ==
  /\ call.op = "none"
  /\ \E data \in SwingHistories \cup TrendHistories, rnd \in RandomDraws :
       \E days \in Horizons("LSTM", data) :
         /\ call' = [op |-> "generateLSTMPredictions", data |-> data, days |-> days,
                     rnd |-> rnd]
         /\ ret' = <<"generateLSTMPredictions",
                   generateLSTMPredictions(extractFeatures(data), days, rnd)>>
         /\ UNCHANGED <<validationCache, inFlight, apiClientVars, dataServiceVars>>

GenerateARIMAPredictions ==
  /\ call.op = "none"
  /\ \E data \in SwingHistories \cup TrendHistories, rnd \in RandomDraws :
       \E days \in Horizons("ARIMA", data) :
         /\ call' = [op |-> "generateARIMAPredictions", data |-> data, days |-> days,
                     rnd |-> rnd]
         /\ ret' = <<"generateARIMAPredictions",
                   generateARIMAPredictions(extractFeatures(data), days, rnd)>>
         /\ UNCHANGED <<validationCache, inFlight, apiClientVars, dataServiceVars>>

GenerateEnhancedPredictions ==
  /\ call.op = "none"
  /\ \E symbol \in Symbols, rows \in SwingHistories \cup TrendHistories \cup ShortHistories,
        rndLSTM \in RandomDraws, rndARIMA \in RandomDraws, fault \in BOOLEAN :
       /\ symbol \notin KnownSymbols => rows = <<>>
       /\ \E days \in IF fault THEN 0..MaxDays ELSE EnsembleHorizons(rows) :
            /\ call' = [op |-> "generateEnhancedPredictions", symbol |-> symbol,
                        days |-> days, rows |-> rows, rndLSTM |-> rndLSTM,
                        rndARIMA |-> rndARIMA, fault |-> fault]
            /\ ret' = <<"generateEnhancedPredictions",
                      generateEnhancedPredictions(symbol, days, rows, rndLSTM, rndARIMA,
                                                  rndLSTM, fault)>>
            /\ UNCHANGED <<validationCache, inFlight, apiClientVars, dataServiceVars>>

(* RSI values on both sides of 30 and 70 and at the ends of [0, 100], MACD *)
(* values of each sign.                                                    *)
TrendRSIs == {Zero, Num(29), Num(30), Frac(61, 2), Num(50), Num(70), Frac(141, 2), Hundred}

TrendMACDs == {Num(-1), Frac(-1, 100), Zero, Frac(1, 100), Num(2)}

CalculateTrendFactor ==
  /\ call.op = "none"
  /\ \E rsi \in TrendRSIs, macd \in TrendMACDs, dayAhead \in 1..(MaxDays + 1) :
       /\ call' = [op |-> "calculateTrendFactor", rsi |-> rsi, macd |-> macd,
                   dayAhead |-> dayAhead]
       /\ ret' = <<"calculateTrendFactor", calculateTrendFactor(rsi, macd, dayAhead)>>
       /\ UNCHANGED <<validationCache, inFlight, apiClientVars, dataServiceVars>>

NextForecast ==
  \/ GenerateLSTMPredictions
  \/ GenerateARIMAPredictions
  \/ GenerateEnhancedPredictions
  \/ CalculateTrendFactor

SpecForecast == Init /\ [][NextForecast]_vars

-----------------------------------------------------------------------------
(* validatePredictions as the asynchronous handler it is: a call runs up   *)
(* to its next await, where other calls and callers can run.               *)

(* The rows the database can hold while calls overlap. *)
OverlapPredictions ==
  {p \in StoredPredictions :
     Len(p) <= 1 /\ \A k \in 1..Len(p) : p[k].target_date = IsoString(Today, 0)}

OverlapMarketRows == {m \in MarketRows : Len(m) <= 1}

(* validatePredictions(symbol) is called: it logs and suspends at the      *)
(* query for the market_symbols row.                                       *)
StartValidation(r) ==
  /\ inFlight[r].pc = "idle"
  /\ \E symbol \in Symbols :
       inFlight' = [inFlight EXCEPT ![r] = [pc |-> "awaitSymbol", symbol |-> symbol,
                                            predictions |-> <<>>]]
  /\ UNCHANGED <<call, ret, validationCache, apiClientVars, dataServiceVars>>

(* The market_symbols query resolves: without a row the error is thrown,   *)
(* caught, and the call resolves with mock validation data; with one, the  *)
(* call suspends at the query for the ai_predictions rows.                 *)
SymbolLoaded(r) ==
  /\ inFlight[r].pc = "awaitSymbol"
  /\ IF inFlight[r].symbol \notin KnownSymbols
     THEN \E rnd \in RandomDraws :
            /\ ret' = <<"validatePredictions", generateMockValidation(inFlight[r].symbol, rnd)>>
            /\ inFlight' = [inFlight EXCEPT ![r] = Idle]
     ELSE /\ inFlight' = [inFlight EXCEPT ![r].pc = "awaitPredictions"]
          /\ UNCHANGED ret
  /\ UNCHANGED <<call, validationCache, apiClientVars, dataServiceVars>>

(* The ai_predictions query resolves: without rows the error is thrown and *)
(* caught as above; with rows the call suspends in getActualMarketData.    *)
PredictionsLoaded(r) ==
  /\ inFlight[r].pc = "awaitPredictions"
  /\ \E predictions \in OverlapPredictions :
       IF Len(predictions) = 0
       THEN \E rnd \in RandomDraws :
              /\ ret' = <<"validatePredictions",
                        generateMockValidation(inFlight[r].symbol, rnd)>>
              /\ inFlight' = [inFlight EXCEPT ![r] = Idle]
       ELSE /\ inFlight' = [inFlight EXCEPT ![r].pc = "awaitActual",
                                            ![r].predictions = predictions]
            /\ UNCHANGED ret
  /\ UNCHANGED <<call, validationCache, apiClientVars, dataServiceVars>>

(* getActualMarketData resolves: the metrics are computed, the result is   *)
(* written to validationCache and the call resolves with it.               *)
ActualDataLoaded(r) ==
  /\ inFlight[r].pc = "awaitActual"
  /\ \E marketData \in OverlapMarketRows, rnd \in RandomDraws :
       LET outcome == validatePredictions(inFlight[r].symbol, inFlight[r].predictions,
                                          marketData, rnd)
       IN  /\ validationCache' = [validationCache EXCEPT ![inFlight[r].symbol] = outcome.result]
           /\ ret' = <<"validatePredictions", outcome.result>>
  /\ inFlight' = [inFlight EXCEPT ![r] = Idle]
  /\ UNCHANGED <<call, apiClientVars, dataServiceVars>>

getCachedValidation(cache, symbol) == cache[symbol]

GetCachedValidation ==
  /\ \E symbol \in Symbols :
       ret' = <<"getCachedValidation", getCachedValidation(validationCache, symbol)>>
  /\ UNCHANGED <<call, validationCache, inFlight, apiClientVars, dataServiceVars>>

NextOverlap ==
  \/ \E r \in Requests : StartValidation(r)
  \/ \E r \in Requests : SymbolLoaded(r)
  \/ \E r \in Requests : PredictionsLoaded(r)
  \/ \E r \in Requests : ActualDataLoaded(r)
  \/ GetCachedValidation

SpecOverlap == Init /\ [][NextOverlap]_vars

(* The calls that have passed both throws and are suspended before the     *)
(* write to validationCache[symbol].                                       *)
Recomputing(symbol) ==
  {r \in Requests : inFlight[r].pc = "awaitActual" /\ inFlight[r].symbol = symbol}

(* C14: for each symbol at most one validatePredictions call that will     *)
(* write validationCache[symbol] is in progress at any time.               *)
C14_SingleFlight == \A symbol \in Symbols : Cardinality(Recomputing(symbol)) <= 1

(* A second call for a symbol can start while one is in progress. *)
C14_ReachedSecondStart ==
  \E r1, r2 \in Requests :
    /\ r1 # r2
    /\ inFlight[r1].pc = "awaitActual"
    /\ inFlight[r2].pc = "awaitSymbol"
    /\ inFlight[r1].symbol = inFlight[r2].symbol

-----------------------------------------------------------------------------
(* Insufficient input of the indicator functions.                          *)

AllEmpty(lines) == \A j \in DOMAIN lines : lines[j] = <<>>

(* Every optional field that is present holds the empty result. *)
EmptyIfPresent(o, fields) ==
  IsPresent(o) => IF fields = {} THEN o[1] = <<>> ELSE \A f \in fields : o[1][f] = <<>>

(* The result of a calculateAll call has nothing in the lines whose        *)
(* default period exceeds the number n of prices.                          *)
CalculateAllEmptyBelowWarmUp(n, result) ==
  /\ n < DefaultRSIPeriod => result.rsi = <<>>
  /\ n < DefaultSlowPeriod =>
       /\ result.macd.macd = <<>>
       /\ result.macd.signal = <<>>
       /\ result.macd.histogram = <<>>
  /\ \A p \in DOMAIN result.sma : n < p => result.sma[p] = <<>>
  /\ \A p \in DOMAIN result.ema : n < p => result.ema[p] = <<>>
  /\ n < DefaultBollingerPeriod =>
       /\ result.bollingerBands.upper = <<>>
       /\ result.bollingerBands.middle = <<>>
       /\ result.bollingerBands.lower = <<>>
  /\ n < DefaultKPeriod => EmptyIfPresent(result.stochastic, {"k", "d"})
  /\ n < DefaultATRPeriod => EmptyIfPresent(result.atr, {})
  /\ n < DefaultADXPeriod => EmptyIfPresent(result.adx, {})

(* C12: each indicator function, called with fewer points than its         *)
(* warm-up period, returns empty result sequences (every line of a          *)
(* multi-line result is empty), and detectPatterns returns [] for fewer    *)
(* than 20 prices; no call raises.                                         *)
C12_InsufficientInputEmpty ==
  /\ (call.op \in {"calculateRSI", "calculateSMA", "calculateEMA"}
      /\ Len(call.prices) < call.period) => ret[2] = <<>>
  /\ (call.op = "calculateMACD" /\ Len(call.prices) < call.slowPeriod) =>
       /\ ret[2].macd = <<>>
       /\ ret[2].signal = <<>>
       /\ ret[2].histogram = <<>>
  /\ (call.op = "calculateBollingerBands" /\ Len(call.prices) < call.period) =>
       /\ ret[2].upper = <<>>
       /\ ret[2].middle = <<>>
       /\ ret[2].lower = <<>>
  /\ (call.op = "calculateStochastic" /\ Len(call.closes) < call.kPeriod) =>
       /\ ret[2].k = <<>>
       /\ ret[2].d = <<>>
  /\ (call.op \in {"calculateATR", "calculateADX"} /\ Len(call.highs) < call.period) =>
       ret[2] = <<>>
  /\ call.op = "calculateAll" => CalculateAllEmptyBelowWarmUp(Len(call.prices), ret[2])
  /\ (call.op = "detectPatterns" /\ Len(call.prices) < PatternWindow) => ret[2] = <<>>

C12_Witness ==
  /\ call.op = "detectPatterns"
  /\ Len(call.prices) = PatternWindow - 1
  /\ call.prices[Len(call.prices)] # Hundred
  /\ ret[2] = <<>>

C12_WitnessCalculateAll ==
  /\ call.op = "calculateAll"
  /\ Len(call.prices) = DefaultFastPeriod
  /\ IsPresent(call.highs)
  /\ ret[2].ema[12] # <<>>
  /\ ret[2].rsi = <<>>
  /\ ret[2].atr = Present(<<>>)

C12_WitnessATR ==
  /\ call.op = "calculateATR"
  /\ Len(call.highs) = 2
  /\ Len(call.lows) = 2
  /\ call.period = 2
  /\ ret[2] = <<>>

-----------------------------------------------------------------------------
(* Lengths and alignment of the MACD lines.                                *)

DefaultMACDCall ==
  /\ call.op = "calculateMACD"
  /\ call.fastPeriod = DefaultFastPeriod
  /\ call.slowPeriod = DefaultSlowPeriod
  /\ call.signalPeriod = DefaultSignalPeriod

(* C17: for a series of at least 30 prices, calculateMACD with the default *)
(* periods returns a non-empty macd line, a non-empty signal line and a    *)
(* non-empty histogram, the histogram being as long as the signal line.    *)
C17_MACDNonEmptyFrom30 ==
  (DefaultMACDCall /\ Len(call.prices) >= 30) =>
    /\ ret[2].macd # <<>>
    /\ ret[2].signal # <<>>
    /\ ret[2].histogram # <<>>
    /\ Len(ret[2].histogram) = Len(ret[2].signal)

(* What calculateMACD returns instead: the macd line has                   *)
(* n - 2 * slowPeriod + fastPeriod + 1 values (none below 40 prices with   *)
(* the default periods), the signal line and the histogram have            *)
(* signalPeriod - 1 fewer (none below 48 prices).                          *)
C17_MACDLengths ==
  call.op = "calculateMACD" =>
    LET n == Len(call.prices)
        m == IMax2(0, n - 2 * call.slowPeriod + call.fastPeriod + 1)
    IN  /\ Len(ret[2].macd) = m
        /\ Len(ret[2].signal) = IMax2(0, m - (call.signalPeriod - 1))
        /\ Len(ret[2].histogram) = Len(ret[2].signal)

C17_Reached30 ==
  /\ DefaultMACDCall
  /\ Len(call.prices) = 30
  /\ call.prices[30] # Hundred
  /\ ret[2].macd = <<>>

C17_Reached48 ==
  /\ DefaultMACDCall
  /\ Len(call.prices) = 48
  /\ Len(ret[2].macd) = 9
  /\ Len(ret[2].histogram) = 1

(* emaFast[a] and emaSlow[b] (0-based) are taken at the same closing-price *)
(* index when a + fastPeriod = b + slowPeriod.                             *)
AlignedDifferences(prices, fastPeriod, slowPeriod) ==
  LET emaFast == calculateEMA(prices, fastPeriod)
      emaSlow == calculateEMA(prices, slowPeriod)
  IN  {RSub(emaFast[b + (slowPeriod - fastPeriod) + 1], emaSlow[b + 1]) :
         b \in {c \in 0..(Len(emaSlow) - 1) :
                  c + (slowPeriod - fastPeriod) + 1 \in DOMAIN emaFast}}

(* C20: every value of the macd line is the fast EMA minus the slow EMA at *)
(* one and the same closing-price index.                                   *)
C20_MACDAligned ==
  (call.op = "calculateMACD" /\ Len(call.prices) >= call.slowPeriod) =>
    \A j \in DOMAIN ret[2].macd :
      ret[2].macd[j] \in AlignedDifferences(call.prices, call.fastPeriod, call.slowPeriod)

(* What the loop computes: macd[j] is the fast EMA at closing-price index  *)
(* j + fastPeriod - 2 minus the slow EMA at index                          *)
(* j + 2 * slowPeriod - fastPeriod - 2 (0-based), which is                 *)
(* 2 * (slowPeriod - fastPeriod) closes later.                             *)
C20_MACDMisaligned ==
  call.op = "calculateMACD" =>
    \A j \in DOMAIN ret[2].macd :
      ret[2].macd[j] =
        RSub(calculateEMA(call.prices, call.fastPeriod)[j],
             calculateEMA(call.prices, call.slowPeriod)[j + (call.slowPeriod - call.fastPeriod)])

C20_Reached ==
  /\ call.op = "calculateMACD"
  /\ call.fastPeriod = 1
  /\ call.slowPeriod = 2
  /\ call.prices = <<Num(1), Num(2), Num(3)>>
  /\ ret[2].macd = <<Frac(-3, 2)>>

-----------------------------------------------------------------------------
(* Bounds and day coverage of the ensemble combiner.                       *)

(* The models that have a point for the 1-based day d. *)
Contributors(modelPredictions, d) ==
  {m \in 1..Len(modelPredictions) : Len(modelPredictions[m]) >= d}

(* C15: the combined upper bound of a day is the greatest upper bound and  *)
(* the combined lower bound the least lower bound of the models that       *)
(* contributed to the day, so the combined interval contains each of       *)
(* their intervals.                                                        *)
C15_EnsembleEnvelope ==
  call.op = "combineModelPredictions" =>
    \A d \in 1..Len(ret[2]) :
      LET from == Contributors(call.modelPredictions, d)
          point(m) == call.modelPredictions[m][d]
      IN  /\ from # {}
          /\ \E m \in from : ret[2][d].upperBound = point(m).upperBound
          /\ \E m \in from : ret[2][d].lowerBound = point(m).lowerBound
          /\ \A m \in from :
               /\ RLe(point(m).upperBound, ret[2][d].upperBound)
               /\ RLe(ret[2][d].lowerBound, point(m).lowerBound)

(* Two models of which one has the higher upper bound and the other the    *)
(* lower lower bound: the combined interval is wider than either.          *)
C15_Witness ==
  /\ call.op = "combineModelPredictions"
  /\ Len(call.modelPredictions) = 2
  /\ Len(ret[2]) >= 1
  /\ \E d \in 1..Len(ret[2]) :
       /\ Contributors(call.modelPredictions, d) = {1, 2}
       /\ \E m \in {1, 2} :
            /\ RLt(call.modelPredictions[m][d].upperBound, ret[2][d].upperBound)
            /\ RLt(ret[2][d].lowerBound, call.modelPredictions[3 - m][d].lowerBound)

(* The 1-based days for which at least one input sequence has a point. *)
CoveredDays(modelPredictions) ==
  {d \in 1..MaxDays : Contributors(modelPredictions, d) # {}}

(* C16: the combiner outputs exactly one point for each day index at which *)
(* at least one input sequence has a point, whatever the lengths and the   *)
(* order of the sequences, and no point for any other day index.           *)
C16_DayCoverage ==
  call.op = "combineModelPredictions" =>
    /\ Len(ret[2]) = Cardinality(CoveredDays(call.modelPredictions))
    /\ \A d \in CoveredDays(call.modelPredictions) :
         \E k \in 1..Len(ret[2]) :
           ret[2][k].timestamp = SplitT0(ToISOString(Today + d))

(* What the code does: the days are those of the first sequence only. *)
C16_FirstSequenceDays ==
  (call.op = "combineModelPredictions" /\ Len(call.modelPredictions) > 0) =>
    /\ Len(ret[2]) = Len(call.modelPredictions[1])
    /\ \A d \in 1..Len(ret[2]) : ret[2][d].timestamp = call.modelPredictions[1][d].timestamp

C16_Reached ==
  /\ call.op = "combineModelPredictions"
  /\ Len(call.modelPredictions) = 2
  /\ Len(call.modelPredictions[1]) = 1
  /\ Len(call.modelPredictions[2]) = 2
  /\ Len(ret[2]) = 1

-----------------------------------------------------------------------------
(* Per-point validation.                                                   *)

(* The realized prices for the date of the k-th forecast point; the last   *)
(* one is the realized price of the date.                                  *)
RealizedFor(k) == {j \in 1..Len(RealizedPrices) : RealizedPrices[j].date[1] = ForecastDay(k)}

RealizedPrice(k) == RealizedPrices[CHOOSE j \in RealizedFor(k) : \A h \in RealizedFor(k) : h <= j].price

Matched == {k \in 1..Len(call.predictions) : RealizedFor(k) # {}}

PredictedPrice(k) == ParseFloat(call.predictions[k].predicted_value)

RelativeError(k) == RDiv(RAbs(RSub(PredictedPrice(k), RealizedPrice(k))), RealizedPrice(k))

(* The mean over the matched points of term(k). *)
MatchedMean(term(_)) ==
  RDiv(RSum([k \in 1..Len(call.predictions) |-> IF k \in Matched THEN term(k) ELSE Zero]),
       Num(Cardinality(Matched)))

SquaredError(k) == RSquare(RSub(PredictedPrice(k), RealizedPrice(k)))

PointAccuracy(k) == ret[2].predictions[k].accuracy

(* C18: in a validation that ran (nothing thrown), every forecast point is *)
(* kept; a point has `actual` and `accuracy` exactly when its date has a   *)
(* realized price, and then accuracy = max(0, 1 - |predicted - actual| /   *)
(* actual), a number in [0, 1]; overallAccuracy and mape are the means of   *)
(* accuracy and of the relative error over the matched points and rmse is  *)
(* the root of their mean squared error.                                   *)
C18_PerPointValidation ==
  (call.op = "validatePredictions" /\ call.caught = "nothing") =>
    /\ Len(ret[2].predictions) = Len(call.predictions)
    /\ \A k \in 1..Len(call.predictions) :
         IF k \in Matched
         THEN /\ ret[2].predictions[k].actual = RealizedPrice(k)
              /\ PointAccuracy(k) = RMax2(Zero, RSub(One, RelativeError(k)))
              /\ RLe(Zero, PointAccuracy(k))
              /\ RLe(PointAccuracy(k), One)
         ELSE /\ ret[2].predictions[k].actual = Undefined
              /\ PointAccuracy(k) = Undefined
    /\ Matched # {} =>
         /\ ret[2].overallAccuracy = MatchedMean(PointAccuracy)
         /\ ret[2].mape = MatchedMean(RelativeError)
         /\ ret[2].rmse = RSqrt(MatchedMean(SquaredError))

(* A forecast of two points of which one is matched, by a realized price   *)
(* that differs from the predicted one.                                    *)
C18_Witness ==
  /\ call.op = "validatePredictions"
  /\ call.caught = "nothing"
  /\ Len(call.predictions) = 2
  /\ Len(call.marketData) > 0
  /\ Cardinality(Matched) = 1
  /\ \E k \in Matched :
       /\ RLt(Zero, PointAccuracy(k))
       /\ RLt(PointAccuracy(k), One)
       /\ ret[2].overallAccuracy = PointAccuracy(k)
  /\ RGt(ret[2].rmse, Zero)

-----------------------------------------------------------------------------
(* The two forecast models and generateEnhancedPredictions.                *)

ModelCall == call.op \in {"generateLSTMPredictions", "generateARIMAPredictions"}

(* The last date of the input series: the date of its newest row, the     *)
(* first of the rows as the query orders them.                             *)
SeriesLastDay == call.data[1].date[1]

ForecastDate(k) == ret[2][k].timestamp[1]

C11_DatesFollowToday ==
  ModelCall =>
    /\ Len(ret[2]) = call.days
    /\ \A k \in 1..Len(ret[2]) : ForecastDate(k) = Today + k

(* A forecast of two days or more from a series that ended the day before  *)
(* the call.                                                               *)
C11_ReachedStaleSeries ==
  /\ ModelCall
  /\ call.days >= 2
  /\ SeriesLastDay < Today
  /\ Len(ret[2]) = call.days

EnhancedCall == call.op = "generateEnhancedPredictions"

(* The rows the call of generateEnhancedPredictions read. *)
EnhancedHistory == getHistoricalDataForPrediction(call.symbol, 100, call.rows)

EnsemblePath == EnhancedCall /\ ~call.fault /\ Len(EnhancedHistory) >= 30

(* C13: generateEnhancedPredictions never rejects and resolves with        *)
(* exactly `days` forecast points, on the ensemble path, with fewer than   *)
(* 30 rows of history and when a step inside it throws.                    *)
C13_AlwaysDaysPoints ==
  EnhancedCall =>
    /\ ret[2].settled = "resolved"
    /\ Len(ret[2].value) = call.days
    /\ \A k \in 1..Len(ret[2].value) :
         {"timestamp", "predicted", "confidence", "upperBound", "lowerBound", "modelUsed"}
           \subseteq DOMAIN ret[2].value[k]

(* An ensemble forecast of two days or more. *)
C13_Witness ==
  /\ EnsemblePath
  /\ call.days >= 2
  /\ Len(ret[2].value) = call.days
  /\ \A k \in 1..Len(ret[2].value) : ret[2].value[k].modelUsed = "Ensemble"

(* A call answered with mock points because the history is short. *)
C13_ReachedShortHistory ==
  /\ EnhancedCall
  /\ ~call.fault
  /\ call.symbol \in KnownSymbols
  /\ Len(EnhancedHistory) \in 1..29
  /\ call.days >= 1
  /\ Len(ret[2].value) = call.days

(* A call answered with mock points because a step threw. *)
C13_ReachedFault ==
  /\ EnhancedCall
  /\ call.fault
  /\ Len(call.rows) >= 30
  /\ call.days >= 1
  /\ Len(ret[2].value) = call.days

(* The forecast points of a model or of the ensemble. *)
ForecastPoints ==
  IF ModelCall THEN ret[2]
  ELSE IF EnsemblePath THEN ret[2].value
  ELSE <<>>

InputPricesPositive ==
  \/ ModelCall /\ \A k \in 1..Len(call.data) : RGt(call.data[k].close_price, Zero)
  \/ EnsemblePath /\ \A k \in 1..Len(call.rows) : RGt(call.rows[k].close_price, Zero)

(* C19: from a history of positive prices, every point of the two models   *)
(* and of the ensemble has a predicted price above 0 and a confidence in   *)
(* [0, 1].                                                                 *)
C19_PositivePrices ==
  InputPricesPositive =>
    \A k \in 1..Len(ForecastPoints) :
      /\ RGt(ForecastPoints[k].predicted, Zero)
      /\ RLe(Zero, ForecastPoints[k].confidence)
      /\ RLe(ForecastPoints[k].confidence, One)

(* What holds: the confidences are in [0, 1], and the prices of the        *)
(* trend-decay model are above 0.                                          *)
C19_ConfidenceInRange ==
  InputPricesPositive =>
    \A k \in 1..Len(ForecastPoints) :
      /\ RLe(Zero, ForecastPoints[k].confidence)
      /\ RLe(ForecastPoints[k].confidence, One)
      /\ call.op = "generateLSTMPredictions" => RGt(ForecastPoints[k].predicted, Zero)

(* A mean-reversion forecast with a price below 0. *)
C19_ReachedNegativePrice ==
  /\ call.op = "generateARIMAPredictions"
  /\ InputPricesPositive
  /\ \E k \in 1..Len(ret[2]) : RLt(ret[2][k].predicted, Zero)

-----------------------------------------------------------------------------
(* Momentum.                                                               *)

MomentumCall == call.op = "calculateMomentum"

(* The mean of the `count` closes of call.prices that end `back` closes    *)
(* before the last one.                                                    *)
WindowMean(back, count) ==
  LET n == Len(call.prices)
  IN  RDiv(RSum([j \in 1..count |-> call.prices[n - back - count + j]]), Num(count))

(* C24: with 20 closes or more the momentum is the relative change of the  *)
(* mean of the last 10 closes against the mean of the 10 closes before     *)
(* them; with fewer than 20 closes it is exactly 0.                        *)
C24_MomentumNeeds20 ==
  MomentumCall =>
    IF Len(call.prices) >= 20
    THEN ret[2] = RDiv(RSub(WindowMean(0, 10), WindowMean(10, 10)), WindowMean(10, 10))
    ELSE ret[2] = Zero

(* What the code does: 0 below 10 closes, NaN with exactly 10 closes (the  *)
(* older window is empty), and with 11 to 19 closes the change against the *)
(* mean of the closes before the last 10, fewer than 10 of them.           *)
C24_MomentumNeeds10 ==
  MomentumCall =>
    LET n == Len(call.prices)
    IN  IF n < 10 THEN ret[2] = Zero
        ELSE IF n = 10 THEN IsNaN(ret[2])
        ELSE LET older == WindowMean(10, IMin2(10, n - 10))
             IN  ret[2] = RDiv(RSub(WindowMean(0, 10), older), older)

(* Momentum of exactly 10 closes: not a number. *)
C24_ReachedNaN ==
  /\ MomentumCall
  /\ Len(call.prices) = 10
  /\ IsNaN(ret[2])

(* Momentum of 15 closes: a value that is not 0, from a window of 5. *)
C24_ReachedPartialWindow ==
  /\ MomentumCall
  /\ Len(call.prices) = 15
  /\ IsFinite(ret[2])
  /\ ret[2] # Zero

-----------------------------------------------------------------------------
(* ADX.                                                                    *)

ADXCall == call.op = "calculateADX"

(* The highs of the window behind the k-th value of calculateADX. *)
ADXWindow(k) == JsSlice(call.highs, k - 1, k - 1 + call.period)

ADXFlatWindow(k) == \A j \in 1..Len(ADXWindow(k)) : ADXWindow(k)[j] = ADXWindow(k)[1]

(* C25: every value of calculateADX is a number in [0, 100], also for a    *)
(* window whose highs are all equal.                                       *)
C25_ADXInRange ==
  ADXCall =>
    \A k \in 1..Len(ret[2]) :
      /\ ~IsNaN(ret[2][k])
      /\ RLe(Zero, ret[2][k])
      /\ RLe(ret[2][k], Hundred)

(* What the code does: the value is NaN exactly for a window of equal      *)
(* highs (0 / 0 passes through Math.max and Math.min), and in [0, 100]     *)
(* for every other window.                                                 *)
C25_ADXNaNOnFlatWindow ==
  ADXCall =>
    \A k \in 1..Len(ret[2]) :
      IF ADXFlatWindow(k) THEN IsNaN(ret[2][k])
      ELSE RLe(Zero, ret[2][k]) /\ RLe(ret[2][k], Hundred)

(* A call with enough highs whose first window of two highs or more is     *)
(* flat.                                                                   *)
C25_ReachedFlatWindow ==
  /\ ADXCall
  /\ call.period >= 2
  /\ Len(call.highs) >= call.period + 1
  /\ ADXFlatWindow(1)
  /\ IsNaN(ret[2][1])

(* A call with a window of three highs that rise and fall: a value         *)
(* strictly between 0 and 100.                                             *)
C25_ReachedInside ==
  /\ ADXCall
  /\ \E k \in 1..Len(ret[2]) : RLt(Zero, ret[2][k]) /\ RLt(ret[2][k], Hundred)

-----------------------------------------------------------------------------
(* The price walk of the two models.                                       *)

CallFeatures == extractFeatures(call.data)

(* The factor 1 + ... by which a model multiplies the price on day i. *)
StepFactor(i) ==
  IF call.op = "generateLSTMPredictions"
  THEN LET rsi == LastOr(CallFeatures.technicalIndicators.rsi, Num(50))
           macd == LastOr(CallFeatures.technicalIndicators.macd.macd, Zero)
       IN  RAdd(RAdd(One, calculateTrendFactor(rsi, macd, i)),
                RMul(RMul(CallFeatures.volatility, Random(call.rnd, i)), Half))
  ELSE LET returns == Filled(calculateReturns(CallFeatures.prices))
           avgReturn == RDiv(RSum(returns), Num(Len(returns)))
           volatility == calculateVolatility(CallFeatures.prices)
       IN  RAdd(RAdd(One, RMul(avgReturn, Half)),
                RMul(RMul(RSub(Random(call.rnd, i), Half), volatility), Num(2)))

(* Each later day is the day before times the factor of the day. *)
Chained ==
  \A k \in 2..Len(ret[2]) : ret[2][k].predicted = RMul(ret[2][k - 1].predicted, StepFactor(k))

(* The close of the most recent date of the history: that of its first     *)
(* row, the rows being ordered by date, newest first.                      *)
MostRecentClose == call.data[1].close_price

(* The close of the oldest date of the history: that of its last row. *)
OldestClose == call.data[Len(call.data)].close_price

(* C21: day 1 of a model is the close of the most recent date of the       *)
(* history times the factor of day 1, and each later day is the predicted  *)
(* price of the day before times the factor of the day.                    *)
C21_StartsFromLatestClose ==
  (ModelCall /\ Len(ret[2]) >= 1) =>
    /\ ret[2][1].predicted = RMul(MostRecentClose, StepFactor(1))
    /\ Chained

(* What the code does: the walk is chained, from the close of the oldest   *)
(* date of the history.                                                    *)
C21_StartsFromOldestClose ==
  (ModelCall /\ Len(ret[2]) >= 1) =>
    /\ ret[2][1].predicted = RMul(OldestClose, StepFactor(1))
    /\ Chained

(* A forecast of two days or more whose second day differs from the first, *)
(* from a history whose oldest and newest closes differ.                   *)
C21_ReachedChain ==
  /\ ModelCall
  /\ Len(ret[2]) >= 2
  /\ MostRecentClose # OldestClose
  /\ ret[2][2].predicted # ret[2][1].predicted
  /\ \A k \in 1..Len(call.data) - 1 : call.data[k].date[1] > call.data[k + 1].date[1]

-----------------------------------------------------------------------------
(* The directional nudge of the trend-decay model.                         *)

(* (r + m) * 0.95^(i - 1) for an RSI value rsi, a MACD value macd, day i. *)
Nudge(rsi, macd, i) ==
  LET r == IF RLt(rsi, Num(30)) THEN Frac(1, 1000)
           ELSE IF RGt(rsi, Num(70)) THEN Frac(-1, 1000)
           ELSE Zero
      m == IF RGt(macd, Zero) THEN Frac(5, 10000)
           ELSE IF RLt(macd, Zero) THEN Frac(-5, 10000)
           ELSE Zero
  IN  RMul(RAdd(r, m), RPow(Frac(95, 100), i - 1))

(* The latest value of the RSI series of the features, and the latest      *)
(* value of their MACD line (0 when the line is empty).                    *)
LatestRSI == CallFeatures.technicalIndicators.rsi[Len(CallFeatures.technicalIndicators.rsi)]

LatestMACD ==
  LET line == CallFeatures.technicalIndicators.macd.macd
  IN  IF Len(line) = 0 THEN Zero ELSE line[Len(line)]

(* The nudge the trend-decay model applied on day k, read off its prices:  *)
(* price(k) / price(k - 1) - 1 - volatility * random * 0.5.                *)
AppliedNudge(k) ==
  LET before == IF k = 1 THEN OldestClose ELSE ret[2][k - 1].predicted
  IN  RSub(RSub(RDiv(ret[2][k].predicted, before), One),
           RMul(RMul(CallFeatures.volatility, Random(call.rnd, k)), Half))

(* C22: the nudge of day i is (r + m) * 0.95^(i - 1) with r and m read off *)
(* the latest RSI and the latest MACD value, for every RSI in [0, 100] and *)
(* every MACD value: as calculateTrendFactor computes it, and as           *)
(* generateLSTMPredictions applies it to its prices.                       *)
C22_NudgeFromLatestRSI ==
  /\ call.op = "calculateTrendFactor" => ret[2] = Nudge(call.rsi, call.macd, call.dayAhead)
  /\ call.op = "generateLSTMPredictions" =>
       \A k \in 1..Len(ret[2]) : AppliedNudge(k) = Nudge(LatestRSI, LatestMACD, k)

(* What the code does: calculateTrendFactor computes the formula, and      *)
(* generateLSTMPredictions gives it 50 in the place of a latest RSI of 0.  *)
C22_NudgeFromRSIOr50 ==
  /\ call.op = "calculateTrendFactor" => ret[2] = Nudge(call.rsi, call.macd, call.dayAhead)
  /\ call.op = "generateLSTMPredictions" =>
       \A k \in 1..Len(ret[2]) :
         AppliedNudge(k) = Nudge(IF LatestRSI = Zero THEN Num(50) ELSE LatestRSI, LatestMACD, k)

(* A forecast from a history whose latest RSI is 0 (a fall and no rise in  *)
(* the window): no nudge is applied.                                       *)
C22_ReachedRSIZero ==
  /\ call.op = "generateLSTMPredictions"
  /\ Len(ret[2]) >= 1
  /\ LatestRSI = Zero
  /\ AppliedNudge(1) = Zero

(* A forecast with a nudge: the latest RSI is above 70. *)
C22_ReachedNudge ==
  /\ call.op = "generateLSTMPredictions"
  /\ Len(ret[2]) >= 1
  /\ RGt(LatestRSI, Num(70))
  /\ AppliedNudge(1) = Frac(-1, 1000)

(* calculateTrendFactor on an oversold RSI and a positive MACD value, on a *)
(* day after the first.                                                    *)
C22_ReachedDecay ==
  /\ call.op = "calculateTrendFactor"
  /\ call.dayAhead >= 2
  /\ RLt(call.rsi, Num(30))
  /\ RGt(call.macd, Zero)
  /\ RGt(ret[2], Zero)
  /\ RLt(ret[2], Frac(15, 10000))

-----------------------------------------------------------------------------
(* The confidence of the two models.                                       *)

(* The confidence that starts at `start` on the first day and is `step`    *)
(* lower on each following day, never below `floor`.                       *)
Schedule(start, step, floor, k) == RMax2(floor, RSub(start, RMul(step, Num(k - 1))))

(* C23: the confidence of the trend-decay model is 0.95 on the first day   *)
(* and 0.05 lower on each following day, never below 0.6; that of the      *)
(* mean-reversion model is 0.9 on the first day and 0.08 lower on each     *)
(* following day, never below 0.5.                                         *)
C23_ConfidenceFromStart ==
  /\ call.op = "generateLSTMPredictions" =>
       \A k \in 1..Len(ret[2]) :
         ret[2][k].confidence = Schedule(Frac(95, 100), Frac(5, 100), Frac(6, 10), k)
  /\ call.op = "generateARIMAPredictions" =>
       \A k \in 1..Len(ret[2]) :
         ret[2][k].confidence = Schedule(Frac(9, 10), Frac(8, 100), Frac(5, 10), k)

(* What the code does: the first day is already one step below the start   *)
(* (0.90 and 0.82); the steps and the floors are those of the claim.       *)
C23_ConfidenceOneStepBelow ==
  /\ call.op = "generateLSTMPredictions" =>
       \A k \in 1..Len(ret[2]) :
         ret[2][k].confidence = Schedule(Frac(95, 100), Frac(5, 100), Frac(6, 10), k + 1)
  /\ call.op = "generateARIMAPredictions" =>
       \A k \in 1..Len(ret[2]) :
         ret[2][k].confidence = Schedule(Frac(9, 10), Frac(8, 100), Frac(5, 10), k + 1)

(* A forecast of one day or more. *)
C23_ReachedFirstDay ==
  /\ call.op = "generateLSTMPredictions"
  /\ Len(ret[2]) >= 1
  /\ ret[2][1].confidence = Frac(9, 10)

(* A forecast long enough for the floor of each model. *)
C23_ReachedFloorLSTM ==
  /\ call.op = "generateLSTMPredictions"
  /\ Len(ret[2]) >= 8
  /\ ret[2][8].confidence = Frac(6, 10)

C23_ReachedFloorARIMA ==
  /\ call.op = "generateARIMAPredictions"
  /\ Len(ret[2]) >= 6
  /\ ret[2][6].confidence = Frac(5, 10)

-----------------------------------------------------------------------------
(* The bounds generateEnhancedPredictions returns.                         *)

EnhancedFeatures == extractFeatures(EnhancedHistory)

(* The sequences of the two models inside the call. *)
ModelSequences ==
  <<generateLSTMPredictions(EnhancedFeatures, call.days, call.rndLSTM),
    generateARIMAPredictions(EnhancedFeatures, call.days, call.rndARIMA)>>

(* C26: on the ensemble path, the upperBound returned for a day is at      *)
(* least the upper bound of every model for the day, and the lowerBound    *)
(* returned is at most the lower bound of every model.                     *)
C26_ReturnedEnvelope ==
  EnsemblePath =>
    \A k \in 1..Len(ret[2].value) : \A m \in 1..Len(ModelSequences) :
      /\ RGe(ret[2].value[k].upperBound, ModelSequences[m][k].upperBound)
      /\ RLe(ret[2].value[k].lowerBound, ModelSequences[m][k].lowerBound)

(* What the code does: addConfidenceIntervals replaces the bounds of the   *)
(* combiner by predicted -/+ predicted * volatility * ((1 - confidence) *  *)
(* 2 + 1), with 0.02 in the place of a volatility of 0.                    *)
C26_ReturnedInterval ==
  EnsemblePath =>
    \A k \in 1..Len(ret[2].value) :
      LET point == ret[2].value[k]
          volatility == IF EnhancedFeatures.volatility = Zero THEN Frac(2, 100)
                        ELSE EnhancedFeatures.volatility
          interval == RMul(RMul(point.predicted, volatility),
                           RAdd(RMul(RSub(One, point.confidence), Num(2)), One))
      IN  /\ point.upperBound = RAdd(point.predicted, interval)
          /\ point.lowerBound = RSub(point.predicted, interval)

(* An ensemble forecast whose returned upper bound is below the upper      *)
(* bound of the trend-decay model.                                         *)
C26_ReachedNarrower ==
  /\ EnsemblePath
  /\ Len(ret[2].value) >= 1
  /\ RLt(ret[2].value[1].upperBound, ModelSequences[1][1].upperBound)
  /\ RGt(ret[2].value[1].lowerBound, ModelSequences[1][1].lowerBound)

-----------------------------------------------------------------------------
(* The RSI of the edge function against the RSI of the indicator library.  *)

EdgeRSICall == ret[1] = "edgeCalculateRSI"

(* The window of changes behind value k of the call is all zero. *)
EdgeFlatWindow(k) ==
  \A m \in 0..call.period :
    call.prices[k + m] = call.prices[k]

(* C30: the edge function's calculateRSI returns the same sequence as      *)
(* TechnicalIndicators.calculateRSI for every price series and period,     *)
(* windows with a zero average loss included (100 in both).                *)
C30_EdgeRSISameSequence ==
  EdgeRSICall => ret[2] = calculateRSI(call.prices, call.period)

(* What the code does: the sequences have the same length and the same     *)
(* value at every window with some movement; at a window without any       *)
(* movement the edge function yields NaN where the library yields 100.     *)
C30_EdgeRSINaNOnFlatWindow ==
  EdgeRSICall =>
    LET library == calculateRSI(call.prices, call.period)
    IN  /\ Len(ret[2]) = Len(library)
        /\ \A k \in 1..Len(ret[2]) :
             IF EdgeFlatWindow(k)
             THEN IsNaN(ret[2][k]) /\ library[k] = Hundred
             ELSE ret[2][k] = library[k]

(* An edge RSI over a window that only rises: 100, as in the library. *)
C30_ReachedZeroLoss ==
  /\ EdgeRSICall
  /\ \E k \in 1..Len(ret[2]) : ~EdgeFlatWindow(k) /\ ret[2][k] = Hundred

(* An edge RSI over a window without movement. *)
C30_ReachedFlatWindow ==
  /\ EdgeRSICall
  /\ \E k \in 1..Len(ret[2]) : EdgeFlatWindow(k) /\ IsNaN(ret[2][k])

-----------------------------------------------------------------------------
(* APIClient.checkRateLimit: calls for one API name, some of them          *)
(* suspended at the setTimeout promise while others run.                   *)

(* checkRateLimit up to the await: the window reset written to the         *)
(* limiter, and the time to wait (0 when the call does not wait).          *)
checkRateLimitBeforeAwait(limiter, t, apiName) ==
  LET callCount == IF t - limiter.lastCall > Minute THEN 0 ELSE limiter.callCount
      atLimit   == callCount >= limits[apiName]
      waitTime  == Minute - (t - limiter.lastCall)
  IN  [callCount |-> callCount, atLimit |-> atLimit,
       wait |-> IF atLimit /\ waitTime > 0 THEN waitTime ELSE 0]

(* checkRateLimit from the end of the if block: callCount is 0 after the   *)
(* block was entered; then callCount++, lastCall = now (the Date.now() of  *)
(* the start of the call) and rateLimiters.set.                            *)
checkRateLimitAfterAwait(callCount, atLimit, t) ==
  [present |-> TRUE, lastCall |-> t,
   callCount |-> (IF atLimit THEN 0 ELSE callCount) + 1]

(* The calls made for an API name: resolved or suspended. *)
CallsMade(apiName) ==
  Len(admitted[apiName])
    + Cardinality({r \in Fetches : rateChecks[r].pc = "sleeping"
                                     /\ rateChecks[r].apiName = apiName})

(* A call of checkRateLimit: it runs to its end, or to the await when the  *)
(* limit is reached and the wait is positive.                              *)
CheckRateLimit(r, apiName) ==
  /\ rateChecks[r].pc = "idle"
  /\ CallsMade(apiName) < MaxCalls
  /\ LET limiter == rateLimiters[apiName]
         before  == checkRateLimitBeforeAwait(limiter, now, apiName)
     IN  IF before.wait > 0
         THEN /\ rateChecks' = [rateChecks EXCEPT ![r] =
                                  [pc |-> "sleeping", apiName |-> apiName, now |-> now,
                                   wake |-> now + before.wait]]
              /\ rateLimiters' = [rateLimiters EXCEPT ![apiName].callCount =
                                    IF limiter.present THEN before.callCount ELSE @]
              /\ UNCHANGED admitted
         ELSE /\ rateLimiters' = [rateLimiters EXCEPT ![apiName] =
                                    checkRateLimitAfterAwait(before.callCount,
                                                             before.atLimit, now)]
              /\ admitted' = [admitted EXCEPT ![apiName] = Append(@, now)]
              /\ UNCHANGED rateChecks
  /\ UNCHANGED <<now, call, ret, validationCache, inFlight, dataServiceVars>>

(* The timer of a suspended call fires and the call runs to its end with   *)
(* the now it read before the wait.                                        *)
RateLimitWake(r) ==
  /\ rateChecks[r].pc = "sleeping"
  /\ rateChecks[r].wake <= now
  /\ LET apiName == rateChecks[r].apiName
     IN  /\ rateLimiters' = [rateLimiters EXCEPT ![apiName] =
                               checkRateLimitAfterAwait(@.callCount, TRUE,
                                                        rateChecks[r].now)]
         /\ admitted' = [admitted EXCEPT ![apiName] = Append(@, now)]
  /\ rateChecks' = [rateChecks EXCEPT ![r] = IdleCheck]
  /\ UNCHANGED <<now, call, ret, validationCache, inFlight, dataServiceVars>>

(* Time passes, once every timer that is due has fired. *)
TimePasses ==
  /\ now < EndTime
  /\ \A r \in Fetches : rateChecks[r].pc = "sleeping" => rateChecks[r].wake > now
  /\ now' = now + Tick
  /\ UNCHANGED <<rateLimiters, rateChecks, admitted, call, ret, validationCache,
                 inFlight, dataServiceVars>>

NextRateLimit ==
  \/ \E r \in Fetches, apiName \in ApiNames : CheckRateLimit(r, apiName)
  \/ \E r \in Fetches : RateLimitWake(r)
  \/ TimePasses

SpecRateLimit == Init /\ [][NextRateLimit]_vars

(* The calls for an API name admitted in the 60000 ms from time t on. *)
AdmittedInWindow(apiName, t) ==
  Cardinality({k \in 1..Len(admitted[apiName]) :
                 t <= admitted[apiName][k] /\ admitted[apiName][k] < t + Minute})

(* C27: for every API name, no more than its per-minute limit of           *)
(* checkRateLimit calls are admitted within any window of 60 seconds.      *)
C27_AtMostLimitPerMinute ==
  \A apiName \in ApiNames : \A k \in 1..Len(admitted[apiName]) :
    AdmittedInWindow(apiName, admitted[apiName][k]) <= limits[apiName]

(* What the code does guarantee: callCount never exceeds the limit, and    *)
(* a call that finds the limit reached waits until 60000 ms after the      *)
(* lastCall it read.                                                       *)
C27_CallCountAtMostLimit ==
  \A apiName \in ApiNames :
    /\ rateLimiters[apiName].callCount <= limits[apiName]
    /\ \A r \in Fetches :
         rateChecks[r].pc = "sleeping" => rateChecks[r].wake <= rateChecks[r].now + Minute

(* A call that waited has been admitted and the limiter holds the time at  *)
(* which that call began, which is before the time it was admitted.        *)
C27_ReachedStaleLastCall ==
  \E apiName \in ApiNames :
    /\ rateLimiters[apiName].present
    /\ Len(admitted[apiName]) > limits[apiName]
    /\ rateLimiters[apiName].lastCall < admitted[apiName][Len(admitted[apiName])]

-----------------------------------------------------------------------------
(* DataService over MarketDataService: the latest market data and the      *)
(* real-time updates.                                                      *)

(* The market_data query starts to fail, or works again. *)
SourceFails ==
  /\ marketSource = "up"
  /\ marketSource' = "down"
  /\ UNCHANGED <<latestFetch, realtimeSubscription, periodicTimers, pendingInserts,
                 updatesStarted, lastCallback, call, ret, validationCache, inFlight,
                 apiClientVars>>

SourceRecovers ==
  /\ marketSource = "down"
  /\ marketSource' = "up"
  /\ UNCHANGED <<latestFetch, realtimeSubscription, periodicTimers, pendingInserts,
                 updatesStarted, lastCallback, call, ret, validationCache, inFlight,
                 apiClientVars>>

(* DataService.getLatestMarketData is called: it awaits                    *)
(* marketDataService.getLatestMarketData(), which awaits the market_data   *)
(* query.                                                                  *)
GetLatestMarketData ==
  /\ latestFetch.pc \in {"idle", "resolved"}
  /\ latestFetch' = [pc |-> "awaitQuery", sourceCalls |-> 1, data |-> "none"]
  /\ UNCHANGED <<marketSource, realtimeSubscription, periodicTimers, pendingInserts,
                 updatesStarted, lastCallback, call, ret, validationCache, inFlight,
                 apiClientVars>>

(* The market_data query settles: MarketDataService.getLatestMarketData    *)
(* resolves with the rows, or throws the error again from its catch.       *)
QuerySettles ==
  /\ latestFetch.pc = "awaitQuery"
  /\ latestFetch' = [latestFetch EXCEPT !.pc = IF marketSource = "up"
                                               THEN "sourceResolved"
                                               ELSE "sourceRejected"]
  /\ UNCHANGED <<marketSource, realtimeSubscription, periodicTimers, pendingInserts,
                 updatesStarted, lastCallback, call, ret, validationCache, inFlight,
                 apiClientVars>>

(* generateMockMarketData() as called from the catch: with isUsingRealData *)
(* it is this.getLatestMarketData(), which queries the source again;       *)
(* otherwise the mock data.  sourceCalls stops counting at MaxSourceCalls. *)
generateMockMarketData(fetch) ==
  IF isUsingRealData
  THEN [fetch EXCEPT !.pc = "awaitQuery",
                     !.sourceCalls = IMin2(@ + 1, MaxSourceCalls)]
  ELSE [fetch EXCEPT !.pc = "resolved", !.data = "mock"]

(* The await of DataService.getLatestMarketData ends: the call resolves    *)
(* with the rows, or the catch returns generateMockMarketData().           *)
FetchResumes ==
  /\ latestFetch.pc \in {"sourceResolved", "sourceRejected"}
  /\ latestFetch' = IF latestFetch.pc = "sourceResolved"
                    THEN [latestFetch EXCEPT !.pc = "resolved", !.data = "real"]
                    ELSE generateMockMarketData(latestFetch)
  /\ UNCHANGED <<marketSource, realtimeSubscription, periodicTimers, pendingInserts,
                 updatesStarted, lastCallback, call, ret, validationCache, inFlight,
                 apiClientVars>>

(* startRealTimeUpdates(callback): with isUsingRealData it is              *)
(* marketDataService.subscribeToRealTimeUpdates(callback), which sets      *)
(* realtimeSubscription unless the channel set-up throws, and in both      *)
(* cases calls startPeriodicUpdates, which starts a timer it keeps no      *)
(* handle of.                                                              *)
StartRealTimeUpdates ==
  /\ isUsingRealData
  /\ periodicTimers < MaxTimers
  /\ \E thrown \in BOOLEAN :
       realtimeSubscription' = IF thrown THEN realtimeSubscription ELSE TRUE
  /\ periodicTimers' = periodicTimers + 1
  /\ updatesStarted' = TRUE
  /\ lastCallback' = "none"
  /\ UNCHANGED <<marketSource, latestFetch, pendingInserts, call, ret, validationCache,
                 inFlight, apiClientVars>>

(* stopRealTimeUpdates(): unsubscribeFromRealTimeUpdates removes the       *)
(* channel and clears realtimeSubscription; dataUpdateInterval is null     *)
(* with isUsingRealData, so no timer is cleared.                           *)
StopRealTimeUpdates ==
  /\ realtimeSubscription' = FALSE
  /\ updatesStarted' = FALSE
  /\ lastCallback' = "none"
  /\ UNCHANGED <<marketSource, latestFetch, periodicTimers, pendingInserts, call, ret,
                 validationCache, inFlight, apiClientVars>>

(* When the registered callback is invoked. *)
CallbackInvoked == IF updatesStarted THEN "whileStarted" ELSE "afterStop"

(* A timer of startPeriodicUpdates fires: callback(generateMockUpdates()). *)
PeriodicUpdate ==
  /\ periodicTimers > 0
  /\ lastCallback' = CallbackInvoked
  /\ UNCHANGED <<marketSource, latestFetch, realtimeSubscription, periodicTimers,
                 pendingInserts, updatesStarted, call, ret, validationCache, inFlight,
                 apiClientVars>>

(* An INSERT on market_data reaches the subscribed channel: the handler    *)
(* awaits this.getLatestMarketData().                                      *)
RealtimeInsert ==
  /\ realtimeSubscription
  /\ pendingInserts < MaxPending
  /\ pendingInserts' = pendingInserts + 1
  /\ UNCHANGED <<marketSource, latestFetch, realtimeSubscription, periodicTimers,
                 updatesStarted, lastCallback, call, ret, validationCache, inFlight,
                 apiClientVars>>

(* The query of a handler settles: callback(latestData), or the handler    *)
(* rejects when the query failed.                                          *)
InsertHandled ==
  /\ pendingInserts > 0
  /\ pendingInserts' = pendingInserts - 1
  /\ lastCallback' = IF marketSource = "up" THEN CallbackInvoked ELSE lastCallback
  /\ UNCHANGED <<marketSource, latestFetch, realtimeSubscription, periodicTimers,
                 updatesStarted, call, ret, validationCache, inFlight, apiClientVars>>

NextDataService ==
  \/ SourceFails
  \/ SourceRecovers
  \/ GetLatestMarketData
  \/ QuerySettles
  \/ FetchResumes
  \/ StartRealTimeUpdates
  \/ StopRealTimeUpdates
  \/ PeriodicUpdate
  \/ RealtimeInsert
  \/ InsertHandled

SpecDataService == Init /\ [][NextDataService]_vars

(* A query always settles, and a settled promise resumes its awaiter. *)
SpecDataServiceFair ==
  SpecDataService /\ WF_vars(QuerySettles) /\ WF_vars(FetchResumes)

FetchPending == latestFetch.pc \in {"awaitQuery", "sourceResolved", "sourceRejected"}

(* C28: DataService.getLatestMarketData always eventually resolves, also   *)
(* when the source fails persistently.                                     *)
C28_EventuallyResolves == FetchPending ~> (latestFetch.pc = "resolved")

(* What the code does: the call resolves only with rows of the source,     *)
(* never with mock data.                                                   *)
C28_ResolvesOnlyWithSourceRows ==
  latestFetch.pc = "resolved" => latestFetch.data = "real"

(* What the code does: every failure of the source is answered with        *)
(* another query of the source.                                            *)
C28_RetriesOnFailure ==
  [][latestFetch.pc = "sourceRejected" /\ latestFetch' # latestFetch
       => /\ latestFetch'.pc = "awaitQuery"
          /\ latestFetch'.sourceCalls >= IMin2(latestFetch.sourceCalls + 1,
                                               MaxSourceCalls)]_vars

(* A call that has queried the failing source MaxSourceCalls times and is  *)
(* still pending.                                                          *)
C28_ReachedRepeatedCalls ==
  /\ latestFetch.pc = "awaitQuery"
  /\ latestFetch.sourceCalls = MaxSourceCalls
  /\ marketSource = "down"

-----------------------------------------------------------------------------
(* Real-time updates after stopRealTimeUpdates.                            *)

(* C29: after stopRealTimeUpdates() returns the registered callback is     *)
(* never invoked again; at most one periodic update timer is active while  *)
(* started and none while stopped.                                         *)
C29_StopEndsUpdates ==
  /\ lastCallback # "afterStop"
  /\ updatesStarted => periodicTimers <= 1
  /\ ~updatesStarted => periodicTimers = 0

(* What the code does: a timer of startPeriodicUpdates is never cleared,   *)
(* and stop clears only the channel subscription.                          *)
C29_TimersNeverCleared ==
  [][periodicTimers' >= periodicTimers]_vars

C29_StopClearsSubscription ==
  ~updatesStarted => ~realtimeSubscription

(* The callback was invoked by a timer after stop returned. *)
C29_ReachedCallbackAfterStop ==
  /\ lastCallback = "afterStop"
  /\ ~updatesStarted
  /\ periodicTimers > 0

(* Two timers are active after start, stop, start. *)
C29_ReachedTwoTimers ==
  /\ updatesStarted
  /\ periodicTimers = 2

====
